---------------------------- MODULE Spec2Model ----------------------------
(***************************************************************************)
(* LoRA-Harvester: the smart cropper (src/src/core/cropper.py), the        *)
(* ensemble detector's voting (src/src/core/ensemble_detector.py), the     *)
(* primary subject selection and the frame pipeline drivers.               *)
(*                                                                         *)
(* Real numbers are kept exact.  A Python float that the code computes as  *)
(* a quotient of integers is the pair <<num, den>> with den > 0, and every *)
(* comparison is done by cross-multiplication.  For the value ranges of    *)
(* this model the comparisons and the int() truncations of the doubles     *)
(* agree with the exact ones; the one place where doubles differ from      *)
(* exact arithmetic at larger sizes, int(d * scale) in the scale-down of   *)
(* calculate_crop_box, is modelled by the rounding input ulp.              *)
(***************************************************************************)
EXTENDS Integers, Sequences, FiniteSets, TLC

VARIABLES
    \* ---- SmartCropper and one call of its methods
    cropper,            \* self: target_format, aspect_ratio, min_padding
    frame_shape,        \* <<frame_height, frame_width>>
    subject_bbox,       \* <<x1, y1, x2, y2>>
    category,           \* "person" | "animal" | "object"
    head_space_ratio,   \* <<num, den>>
    crop_dims,          \* <<crop_width, crop_height>> at cropper.py line 78
    crop_box,           \* <<crop_x, crop_y, crop_width, crop_height>> or NoValue
    quality,            \* <<num, den>> or NoValue
    cpc,                \* position of the cropper scenario
    \* ---- EnsembleDetector.calculate_iou on two boxes
    iou_boxes,          \* <<box1, box2>>
    iou,                \* calculate_iou(box1, box2), <<num, den>>
    iou_swapped,        \* calculate_iou(box2, box1)
    ipc,                \* position of the IoU scenario
    \* ---- EnsembleDetector and one call of detect / get_primary_subject
    detector,           \* self: models_to_use, voting_threshold, iou_threshold
    all_detections,     \* the models' detections, in invocation order
    detection_groups,   \* ensemble_voting's groups, in creation order
    voted,              \* the indexes of the groups that met the threshold
    consensus_detections,
    detections,         \* the categorized result of detect
    primary,            \* <<category, subject>> of get_primary_subject
    epc,                 \* position of the detector scenario
    requested,          \* the arguments EnsembleDetector was constructed with
    weights,            \* the models whose loading succeeds on this machine
    load_attempts,      \* how often the loading of each model was tried
    invoked,            \* the models that ran on the frame, in invocation order
    detect_calls,       \* the frames detect was called on
    \* ---- the video drivers
    processor,          \* self: kind, use_turbo, batch_size, text_detector, videos
    call,               \* frame_interval, skip_text, use_quick_text_check, stop_callback
    readable,           \* for each video path, whether cv2 can open it
    stop_requested,     \* what stop_callback() returns
    video_idx,          \* videos started so far
    cap,                \* "none" | "open" | "failed" | "released"
    reads,              \* frames read from all videos
    frame_count,
    processed_count,    \* VideoProcessor.process_video local
    frame,              \* <<the frame read>> while it is handled, else <<>>
    frame_batch,
    frame_numbers,
    text_mask,
    batch_i,            \* index of the second loop of _process_batch
    flushing,           \* the batch is the one flushed before the loop breaks
    stats,              \* the contents of the dict self.stats
    stats_entry,        \* the entry of videos_stats whose 'stats' is that very
                        \* dict, 0 when it is in none
    overall_stats,
    files,              \* the crops written by cv2.imwrite
    dpc,                \* position of the driver
    \* ---- one video run through both strategies of UnifiedVideoProcessor
    video_frames,       \* the frames cap.read() returns, in order
    standard_run,       \* <<stats, files>> after _process_video_standard
    turbo_run,          \* <<stats, files>> after _process_video_turbo
    rpc                 \* position of the comparison

cropVars == <<cropper, frame_shape, subject_bbox, category, head_space_ratio,
              crop_dims, crop_box, quality, cpc>>
iouVars == <<iou_boxes, iou, iou_swapped, ipc>>
ensVars == <<detector, all_detections, detection_groups, voted,
             consensus_detections, detections, primary, epc, requested,
             weights, load_attempts, invoked, detect_calls>>

drvVars == <<processor, call, readable, stop_requested, video_idx, cap, reads, frame_count,
             processed_count, frame, frame_batch, frame_numbers, text_mask,
             batch_i, flushing, stats, stats_entry, overall_stats, files,
             dpc>>
runVars == <<video_frames, standard_run, turbo_run, rpc>>
vars == <<cropVars, iouVars, ensVars, drvVars, runVars>>

NoValue == "None"

(***************************************************************************)
(* Bounds of the model.                                                    *)
(***************************************************************************)
MaxFrame == 3        \* the small frames are up to MaxFrame x MaxFrame
MaxCoord == 2        \* box coordinates run over 0..MaxCoord
MaxPadding == 1      \* min_padding of the small scenarios
MaxIouCoord == 3     \* coordinates of the boxes given to calculate_iou
MaxDetections == 3   \* detections of all models on one frame
MaxPerCategory == 2  \* detections per category given to get_primary_subject

(***************************************************************************)
(* Arithmetic helpers.                                                     *)
(***************************************************************************)
Max(a, b) == IF a >= b THEN a ELSE b
Min(a, b) == IF a <= b THEN a ELSE b
Abs(a) == IF a >= 0 THEN a ELSE 0 - a

\* a / b < c / d, a / b <= c / d for positive denominators
RatLt(p, q) == p[1] * q[2] < q[1] * p[2]
RatLe(p, q) == p[1] * q[2] <= q[1] * p[2]

(***************************************************************************)
(* SmartCropper                                                            *)
(***************************************************************************)
\* cropper.py 15-20: the class attribute ASPECT_RATIOS, width / height
ASPECT_RATIOS ==
    [f \in {"9:16", "3:4", "1:1", "4:5"} |->
        CASE f = "9:16" -> <<9, 16>>
          [] f = "3:4"  -> <<3, 4>>
          [] f = "1:1"  -> <<1, 1>>
          [] f = "4:5"  -> <<4, 5>>]

\* cropper.py 31: self.ASPECT_RATIOS.get(target_format, 9/16)
AspectRatioGet(target_format) ==
    IF target_format \in DOMAIN ASPECT_RATIOS
    THEN ASPECT_RATIOS[target_format]
    ELSE <<9, 16>>

\* cropper.py 22-37: SmartCropper.__init__
SmartCropper(target_format, min_padding) ==
    [target_format |-> target_format,
     aspect_ratio  |-> AspectRatioGet(target_format),
     min_padding   |-> min_padding,
     ideal_head_space |-> <<15, 100>>,
     max_head_space   |-> <<25, 100>>,
     min_head_space   |-> <<5, 100>>]

\* the dimensions with the ratio applied the wrong way round
CropDimensionsSwapped(self, bbox) ==
    LET padded_width  == bbox[3] - bbox[1] + 2 * self.min_padding
        padded_height == bbox[4] - bbox[2] + 2 * self.min_padding
        an == self.aspect_ratio[1]
        ad == self.aspect_ratio[2]
    IN  IF padded_width * ad > padded_height * an
        THEN <<padded_width, (padded_width * an) \div ad>>
        ELSE <<(padded_height * ad) \div an, padded_height>>

\* the dimensions with the branches taken the other way round
CropDimensionsByHeight(self, bbox) ==
    LET padded_width  == bbox[3] - bbox[1] + 2 * self.min_padding
        padded_height == bbox[4] - bbox[2] + 2 * self.min_padding
        an == self.aspect_ratio[1]
        ad == self.aspect_ratio[2]
    IN  IF padded_width * ad < padded_height * an
        THEN <<padded_width, (padded_width * ad) \div an>>
        ELSE <<(padded_height * an) \div ad, padded_height>>

\* cropper.py 56-77: the crop dimensions for the padded subject, before the
\* frame is looked at: <<crop_width, crop_height>>
CropDimensions(self, bbox) ==
    LET subject_width  == bbox[3] - bbox[1]
        subject_height == bbox[4] - bbox[2]
        padded_width   == subject_width + 2 * self.min_padding
        padded_height  == subject_height + 2 * self.min_padding
        an == self.aspect_ratio[1]
        ad == self.aspect_ratio[2]
    IN  IF padded_width * ad > padded_height * an
        THEN \* width-constrained: crop_height = int(crop_width / aspect_ratio)
             <<padded_width, (padded_width * ad) \div an>>
        ELSE \* height-constrained: crop_width = int(crop_height * aspect_ratio)
             <<(padded_height * an) \div ad, padded_height>>

\* int(d * scale) for scale = sn / sd: the exact product truncated; when the
\* exact product is a whole number the double product may lie just below it,
\* and int() then gives one less (ulp = 1)
IntTimesScale(d, sn, sd, ulp) ==
    IF (d * sn) % sd = 0 /\ ulp = 1 /\ d * sn > 0
    THEN (d * sn) \div sd - 1
    ELSE (d * sn) \div sd

\* cropper.py 79-84: scale down proportionally when the crop exceeds the frame
ScaleToFrame(dims, frame_shape_, ulp) ==
    LET crop_width   == dims[1]
        crop_height  == dims[2]
        frame_height == frame_shape_[1]
        frame_width  == frame_shape_[2]
    IN  IF crop_width > frame_width \/ crop_height > frame_height
        THEN IF frame_width * crop_height <= frame_height * crop_width
             THEN \* scale = frame_width / crop_width
                  <<IntTimesScale(crop_width, frame_width, crop_width, ulp[1]),
                    IntTimesScale(crop_height, frame_width, crop_width, ulp[2])>>
             ELSE \* scale = frame_height / crop_height
                  <<IntTimesScale(crop_width, frame_height, crop_height, ulp[1]),
                    IntTimesScale(crop_height, frame_height, crop_height, ulp[2])>>
        ELSE dims

\* the adjustment made for a subject of any category
HeadSpaceAnyCategory(self, subject_center_y, crop_height, category_, hsr) ==
    IF hsr[1] > 0
    THEN IF RatLt(hsr, self.min_head_space)
         THEN subject_center_y - (crop_height \div 10)
         ELSE IF RatLt(self.max_head_space, hsr)
              THEN subject_center_y + (crop_height \div 10)
              ELSE subject_center_y
    ELSE subject_center_y

\* cropper.py 86-97: the vertical centre after the head space adjustment
HeadSpaceCenterY(self, subject_center_y, crop_height, category_, hsr) ==
    IF category_ = "person" /\ hsr[1] > 0
    THEN IF RatLt(hsr, self.min_head_space)
         THEN subject_center_y - (crop_height \div 10)
         ELSE IF RatLt(self.max_head_space, hsr)
              THEN subject_center_y + (crop_height \div 10)
              ELSE subject_center_y
    ELSE subject_center_y

\* the clamp without its max(0, ...)
ClampToFrameAbove(pos, frame_dim, crop_dim) == Min(pos, frame_dim - crop_dim)

\* cropper.py 104-105: max(0, min(pos, frame - crop))
ClampToFrame(pos, frame_dim, crop_dim) == Max(0, Min(pos, frame_dim - crop_dim))

\* cropper.py 70, 73 and 82: a divisor of calculate_crop_box is zero and the
\* call ends with a ZeroDivisionError: padded_height, self.aspect_ratio, or
\* the width or height of a crop that exceeds the frame
RaisesZeroDivision(self, frame_shape_, bbox) ==
    \/ bbox[4] - bbox[2] + 2 * self.min_padding = 0
    \/ self.aspect_ratio[1] = 0
    \/ LET dims == CropDimensions(self, bbox)
       IN  /\ dims[1] > frame_shape_[2] \/ dims[2] > frame_shape_[1]
           /\ dims[1] = 0 \/ dims[2] = 0

\* a cropper that gives up ("None if not possible") when the padded crop does
\* not fit the frame
CropBoxIfItFits(self, frame_shape_, bbox, category_, hsr, ulp) ==
    LET dims == CropDimensions(self, bbox)
        center_y == HeadSpaceCenterY(self, (bbox[2] + bbox[4]) \div 2, dims[2],
                                     category_, hsr)
    IN  IF dims[1] > frame_shape_[2] \/ dims[2] > frame_shape_[1]
        THEN <<>>
        ELSE <<ClampToFrame((bbox[1] + bbox[3]) \div 2 - dims[1] \div 2,
                            frame_shape_[2], dims[1]),
               ClampToFrame(center_y - dims[2] \div 2, frame_shape_[1], dims[2]),
               dims[1], dims[2]>>

\* cropper.py 39-107: SmartCropper.calculate_crop_box; <<>> when the call
\* returns no box
calculate_crop_box(self, frame_shape_, bbox, category_, hsr, ulp) ==
    IF RaisesZeroDivision(self, frame_shape_, bbox) THEN <<>> ELSE
    LET frame_height == frame_shape_[1]
        frame_width  == frame_shape_[2]
        subject_center_x == (bbox[1] + bbox[3]) \div 2
        subject_center_y == (bbox[2] + bbox[4]) \div 2
        scaled == ScaleToFrame(CropDimensions(self, bbox), frame_shape_, ulp)
        crop_width  == scaled[1]
        crop_height == scaled[2]
        center_y == HeadSpaceCenterY(self, subject_center_y, crop_height,
                                     category_, hsr)
        crop_x == subject_center_x - crop_width \div 2
        crop_y == center_y - crop_height \div 2
    IN  <<ClampToFrame(crop_x, frame_width, crop_width),
          ClampToFrame(crop_y, frame_height, crop_height),
          crop_width, crop_height>>

\* cropper.py 187, 189: the distance from a frame edge that counts as touching
EdgeMargin == 10

\* cropper.py 185-190: edge_penalty in tenths
EdgePenalty(frame_shape_, box) ==
    LET frame_height == frame_shape_[1]
        frame_width  == frame_shape_[2]
        x == box[1]  y == box[2]  w == box[3]  h == box[4]
    IN  (IF x <= EdgeMargin \/ y <= EdgeMargin THEN 1 ELSE 0)
      + (IF x + w >= frame_width - EdgeMargin \/ y + h >= frame_height - EdgeMargin
         THEN 1 ELSE 0)

\* the score without its max(0, ...)
FinalScoreUnclamped(num) == num

\* cropper.py 196: max(0, coverage_score - edge_penalty), on the numerator
FinalScore(num) == Max(0, num)

\* cropper.py 161-198: SmartCropper.calculate_quality_score, as <<num, den>>
calculate_quality_score(frame_shape_, box, bbox) ==
    LET subject_area == (bbox[3] - bbox[1]) * (bbox[4] - bbox[2])
        crop_area    == box[3] * box[4]
        \* coverage = cn / cd
        cn == IF crop_area > 0 THEN subject_area ELSE 0
        cd == IF crop_area > 0 THEN crop_area ELSE 1
        edge_penalty == EdgePenalty(frame_shape_, box)
        \* coverage_score - edge_penalty = 1 - |0.45 - coverage| - penalty / 10
        num == 100 * cd - Abs(45 * cd - 100 * cn) - 10 * edge_penalty * cd
        den == 100 * cd
    IN  <<FinalScore(num), den>>

(***************************************************************************)
(* EnsembleDetector                                                        *)
(***************************************************************************)
\* ensemble_detector.py 36-37: the COCO class mappings
PERSON_CLASSES == {0}
ANIMAL_CLASSES == 14..23

ModelNames == {"yolo", "detr", "fasterrcnn"}

\* m in self.models_to_use
InUse(self, m) == \E k \in 1..Len(self.models_to_use) : self.models_to_use[k] = m

\* list.remove(m)
Remove(list, m) ==
    IF \E k \in 1..Len(list) : list[k] = m
    THEN LET first == CHOOSE k \in 1..Len(list) :
                          list[k] = m /\ \A j \in 1..(k - 1) : list[j] # m
         IN  SubSeq(list, 1, first - 1) \o SubSeq(list, first + 1, Len(list))
    ELSE list

\* the threshold as it was asked for
UnclampedThreshold(voting_threshold, models_to_use) == voting_threshold

\* ensemble_detector.py 55: min(voting_threshold, len(models_to_use))
ClampThreshold(voting_threshold, models_to_use) ==
    Min(voting_threshold, Len(models_to_use))

\* ensemble_detector.py 69-96: EnsembleDetector._init_models; weights_ are the
\* models whose loading succeeds.  self.models maps a model to "absent" (no
\* key), "None" (to be loaded at its first use), "loaded" or "False" (failed)
init_models(self, weights_) ==
    LET yolo   == InUse(self, "yolo")
        to_use == IF yolo /\ "yolo" \notin weights_
                  THEN Remove(self.models_to_use, "yolo")
                  ELSE self.models_to_use
    IN  [self EXCEPT
            !.models_to_use = to_use,
            !.models = [m \in ModelNames |->
                           IF m = "yolo"
                           THEN (IF yolo /\ "yolo" \in weights_
                                 THEN "loaded" ELSE "absent")
                           ELSE IF \E k \in 1..Len(to_use) : to_use[k] = m
                                THEN "None" ELSE "absent"]]

\* ensemble_detector.py 39-67: EnsembleDetector.__init__; iou_threshold keeps
\* its default 0.5 in every caller
EnsembleDetector(models_to_use, voting_threshold, weights_) ==
    init_models([models_to_use    |-> models_to_use,
                 voting_threshold |-> ClampThreshold(voting_threshold, models_to_use),
                 iou_threshold    |-> <<1, 2>>,
                 models           |-> [m \in ModelNames |-> "absent"]],
                weights_)

\* a failed load that leaves no mark
MarkNothing(self, m) == self

\* ensemble_detector.py 121-124, 144-147: the except branch of a lazy load
MarkFailed(self, m) ==
    [self EXCEPT !.models[m] = "False", !.models_to_use = Remove(@, m)]

\* ensemble_detector.py 100, 128: the lazy load tries to load the model
TriesLoad(self, m) == self.models[m] = "None" /\ InUse(self, m)

\* ensemble_detector.py 98-124, 126-147: _lazy_load_detr, _lazy_load_fasterrcnn
lazy_load(self, m, weights_) ==
    IF TriesLoad(self, m)
    THEN IF m \in weights_
         THEN [self EXCEPT !.models[m] = "loaded"]
         ELSE MarkFailed(self, m)
    ELSE self

\* ensemble_detector.py 175-180, 227-232: the head of detect_detr and of
\* detect_fasterrcnn, up to the lazy load
LoadOnUse(self, m, weights_) ==
    IF ~InUse(self, m) THEN self
    ELSE IF self.models[m] = "None" THEN lazy_load(self, m, weights_)
    ELSE self

\* ensemble_detector.py 374-382: the detector after the models of detect were
\* called on a frame
AfterLoads(self, weights_) ==
    LET s1 == IF self.models["detr"] # "absent"
              THEN LoadOnUse(self, "detr", weights_) ELSE self
    IN  IF s1.models["fasterrcnn"] # "absent"
        THEN LoadOnUse(s1, "fasterrcnn", weights_) ELSE s1

\* ensemble_detector.py 151-152, 175-184, 227-236: the model runs on the frame;
\* self is the detector after the loads
Runs(self, m) ==
    IF m = "yolo"
    THEN self.models[m] # "absent"
    ELSE /\ self.models[m] # "absent"
         /\ InUse(self, m)
         /\ self.models[m] \notin {"False", "None"}

\* the models that run on the frame, yolo first, then detr, then fasterrcnn
Invoked(self) ==
    (IF Runs(self, "yolo") THEN <<"yolo">> ELSE <<>>)
    \o (IF Runs(self, "detr") THEN <<"detr">> ELSE <<>>)
    \o (IF Runs(self, "fasterrcnn") THEN <<"fasterrcnn">> ELSE <<>>)

\* the IoU without the early return of lines 285-286
calculate_iou_unguarded(box1, box2) ==
    LET intersection == (Min(box1[3], box2[3]) - Max(box1[1], box2[1]))
                        * (Min(box1[4], box2[4]) - Max(box1[2], box2[2]))
        union == (box1[3] - box1[1]) * (box1[4] - box1[2])
                 + (box2[3] - box2[1]) * (box2[4] - box2[2]) - intersection
    IN  IF union > 0 THEN <<intersection, union>> ELSE <<0, 1>>

\* ensemble_detector.py 274-295: EnsembleDetector.calculate_iou, <<num, den>>
calculate_iou(box1, box2) ==
    LET x1_i == Max(box1[1], box2[1])
        y1_i == Max(box1[2], box2[2])
        x2_i == Min(box1[3], box2[3])
        y2_i == Min(box1[4], box2[4])
        intersection == (x2_i - x1_i) * (y2_i - y1_i)
        area1 == (box1[3] - box1[1]) * (box1[4] - box1[2])
        area2 == (box2[3] - box2[1]) * (box2[4] - box2[2])
        union == area1 + area2 - intersection
    IN  IF x2_i < x1_i \/ y2_i < y1_i
        THEN <<0, 1>>
        ELSE IF union > 0 THEN <<intersection, union>> ELSE <<0, 1>>

\* a match on the overlap alone
MatchesGroupByIou(self, group, detection) ==
    \E k \in 1..Len(group) :
        RatLe(self.iou_threshold, calculate_iou(detection.bbox, group[k].bbox))

\* ensemble_detector.py 318-323: the detection matches some member of the group
MatchesGroup(self, group, detection) ==
    \E k \in 1..Len(group) :
        /\ RatLe(self.iou_threshold, calculate_iou(detection.bbox, group[k].bbox))
        /\ detection.class_id = group[k].class_id

\* the detection joins every group that matches
AddToEveryMatch(self, groups, detection) ==
    LET matching == {g \in 1..Len(groups) : MatchesGroup(self, groups[g], detection)}
    IN  IF matching = {}
        THEN Append(groups, <<detection>>)
        ELSE [g \in 1..Len(groups) |->
                 IF g \in matching THEN Append(groups[g], detection) ELSE groups[g]]

\* the detection joins the latest group that matches
AddToLastMatch(self, groups, detection) ==
    LET matching == {g \in 1..Len(groups) : MatchesGroup(self, groups[g], detection)}
    IN  IF matching = {}
        THEN Append(groups, <<detection>>)
        ELSE LET last == CHOOSE g \in matching : \A h \in matching : g >= h
             IN  [groups EXCEPT ![last] = Append(@, detection)]

\* ensemble_detector.py 314-329: one round of the grouping loop
AddToGroups(self, groups, detection) ==
    LET matching == {g \in 1..Len(groups) : MatchesGroup(self, groups[g], detection)}
    IN  IF matching = {}
        THEN Append(groups, <<detection>>)
        ELSE LET first == CHOOSE g \in matching : \A h \in matching : g <= h
             IN  [groups EXCEPT ![first] = Append(@, detection)]

\* ensemble_detector.py 311-329: the groups of all_detections[i..], added to groups
RECURSIVE GroupDetections(_, _, _, _)
GroupDetections(self, dets, i, groups) ==
    IF i > Len(dets)
    THEN groups
    ELSE GroupDetections(self, dets, i + 1, AddToGroups(self, groups, dets[i]))

\* ensemble_detector.py 336: the set of models that voted for the group
ModelVotes(group) == {group[k].model_source : k \in 1..Len(group)}

\* votes counted by members, and votes required to be exactly the threshold
GroupPassesByLength(self, group) == Len(group) >= self.voting_threshold
GroupPassesExactly(self, group) == Cardinality(ModelVotes(group)) = self.voting_threshold

\* ensemble_detector.py 338: the group has the votes for a consensus
GroupPasses(self, group) == Cardinality(ModelVotes(group)) >= self.voting_threshold

\* ensemble_detector.py 334-338: the indexes of the groups that pass, in order
RECURSIVE PassingGroups(_, _, _)
PassingGroups(self, groups, i) ==
    IF i > Len(groups)
    THEN <<>>
    ELSE (IF GroupPasses(self, groups[i]) THEN <<i>> ELSE <<>>)
         \o PassingGroups(self, groups, i + 1)

RECURSIVE SumOf(_, _, _)
SumOf(group, c, i) ==
    IF i > Len(group) THEN 0 ELSE group[i].bbox[c] + SumOf(group, c, i + 1)

\* ensemble_detector.py 341: int(np.mean(...)), truncated towards zero
IntMean(group, c) ==
    LET s == SumOf(group, c, 1)
    IN  IF s >= 0 THEN s \div Len(group) ELSE 0 - ((0 - s) \div Len(group))

RECURSIVE MaxConfidence(_, _)
MaxConfidence(group, i) ==
    IF i = Len(group)
    THEN group[i].confidence
    ELSE Max(group[i].confidence, MaxConfidence(group, i + 1))

\* ensemble_detector.py 350: ','.join(model_votes); a set of strings iterates
\* in hash order, which differs from run to run: order is that order
RECURSIVE JoinModels(_, _, _)
JoinModels(votes, order, i) ==
    IF i > Len(order)
    THEN ""
    ELSE LET rest == JoinModels(votes, order, i + 1)
         IN  IF order[i] \in votes
             THEN IF rest = "" THEN order[i] ELSE order[i] \o "," \o rest
             ELSE rest

\* ensemble_detector.py 339-358: the consensus detection of a group
MergeGroup(group, order) ==
    [bbox       |-> <<IntMean(group, 1), IntMean(group, 2),
                      IntMean(group, 3), IntMean(group, 4)>>,
     confidence |-> MaxConfidence(group, 1),
     class_id   |-> group[1].class_id,
     class_name |-> group[1].class_name,
     model_source |-> "ensemble(" \o JoinModels(ModelVotes(group), order, 1) \o ")"]

\* ensemble_detector.py 297-360: EnsembleDetector.ensemble_voting
ensemble_voting(self, dets, order) ==
    LET groups  == GroupDetections(self, dets, 1, <<>>)
        passing == PassingGroups(self, groups, 1)
    IN  [k \in 1..Len(passing) |-> MergeGroup(groups[passing[k]], order)]

\* ensemble_detector.py 403-408, detector.py 78-83: the category of a class
CategoryOf(class_id) ==
    IF class_id \in PERSON_CLASSES THEN "person"
    ELSE IF class_id \in ANIMAL_CLASSES THEN "animal"
    ELSE "object"

RECURSIVE OfCategory(_, _, _)
OfCategory(dets, cat, i) ==
    IF i > Len(dets)
    THEN <<>>
    ELSE (IF CategoryOf(dets[i].class_id) = cat
          THEN <<[bbox       |-> dets[i].bbox,
                  confidence |-> dets[i].confidence,
                  class_id   |-> dets[i].class_id,
                  class_name |-> dets[i].class_name,
                  models     |-> dets[i].model_source]>>
          ELSE <<>>)
         \o OfCategory(dets, cat, i + 1)

\* ensemble_detector.py 387-410: the categorized dictionary detect returns
Categorize(dets) ==
    [person |-> OfCategory(dets, "person", 1),
     animal |-> OfCategory(dets, "animal", 1),
     object |-> OfCategory(dets, "object", 1)]

\* ensemble_detector.py 419-420, detector.py 103-104: area * confidence;
\* confidence is in hundredths
SubjectScore(det) ==
    (det.bbox[3] - det.bbox[1]) * (det.bbox[4] - det.bbox[2]) * det.confidence

\* ensemble_detector.py 414-421, detector.py 97-105: all_subjects, in the order
\* person, animal, object
AllSubjects(dets) ==
    [k \in 1..Len(dets.person) |-> <<"person", dets.person[k]>>]
    \o [k \in 1..Len(dets.animal) |-> <<"animal", dets.animal[k]>>]
    \o [k \in 1..Len(dets.object) |-> <<"object", dets.object[k]>>]

\* the last of the entries with the best score
BestIndexLast(all_subjects) ==
    CHOOSE k \in 1..Len(all_subjects) :
        /\ \A j \in 1..Len(all_subjects) :
              SubjectScore(all_subjects[j][2]) <= SubjectScore(all_subjects[k][2])
        /\ \A j \in (k + 1)..Len(all_subjects) :
              SubjectScore(all_subjects[j][2]) < SubjectScore(all_subjects[k][2])

\* ensemble_detector.py 426-427, detector.py 111-112: the head of the list after
\* the stable sort by descending score: the first entry no later one beats
BestIndex(all_subjects) ==
    CHOOSE k \in 1..Len(all_subjects) :
        /\ \A j \in 1..Len(all_subjects) :
              SubjectScore(all_subjects[j][2]) <= SubjectScore(all_subjects[k][2])
        /\ \A j \in 1..(k - 1) :
              SubjectScore(all_subjects[j][2]) < SubjectScore(all_subjects[k][2])

\* ensemble_detector.py 412-427, detector.py 87-112: get_primary_subject
get_primary_subject(dets) ==
    LET all_subjects == AllSubjects(dets)
    IN  IF Len(all_subjects) = 0
        THEN <<NoValue, NoValue>>
        ELSE all_subjects[BestIndex(all_subjects)]

\* ensemble_detector.py 429-433, detector.py 114-127: calculate_head_space
calculate_head_space(bbox, frame_height) ==
    IF frame_height > 0 THEN <<bbox[2], frame_height>> ELSE <<0, 1>>

(***************************************************************************)
(* The state of the parts a scenario does not use.                         *)
(***************************************************************************)
IdleCrop ==
    /\ cropper = NoValue /\ frame_shape = NoValue /\ subject_bbox = NoValue
    /\ category = NoValue /\ head_space_ratio = NoValue /\ crop_dims = NoValue
    /\ crop_box = NoValue /\ quality = NoValue /\ cpc = "idle"

IdleIou ==
    /\ iou_boxes = NoValue /\ iou = NoValue /\ iou_swapped = NoValue
    /\ ipc = "idle"

IdleEnsemble ==
    /\ detector = NoValue /\ all_detections = <<>> /\ detection_groups = <<>>
    /\ voted = <<>> /\ consensus_detections = <<>> /\ detections = NoValue
    /\ primary = NoValue /\ epc = "idle" /\ requested = NoValue
    /\ weights = {} /\ load_attempts = <<>> /\ invoked = <<>>
    /\ detect_calls = 0

IdleDriver ==
    /\ processor = NoValue /\ call = NoValue /\ readable = <<>>
    /\ stop_requested = FALSE
    /\ video_idx = 0 /\ cap = "none" /\ reads = 0 /\ frame_count = 0
    /\ processed_count = 0 /\ frame = <<>> /\ frame_batch = <<>>
    /\ frame_numbers = <<>> /\ text_mask = <<>> /\ batch_i = 0
    /\ flushing = FALSE /\ stats = NoValue /\ stats_entry = 0
    /\ overall_stats = NoValue
    /\ files = {} /\ dpc = "idle"

IdleRuns ==
    /\ video_frames = <<>> /\ standard_run = <<>> /\ turbo_run = <<>> /\ rpc = "idle"

(***************************************************************************)
(* The cropper scenario: a cropper is constructed, calculate_crop_box is   *)
(* called on a frame shape and a subject, then calculate_quality_score on  *)
(* its result.                                                             *)
(***************************************************************************)
\* cli.py 53, main_window.py 279: the formats a user can select
Formats == {"9:16", "3:4", "1:1", "4:5", "16:9", "4:3"}
Categories == {"person", "animal", "object"}

\* a frame and boxes large enough for the head space shift (which needs a crop
\* height of 10) and for a crop clear of the 10 pixel edge margins
WideFrame == 44
WideShift == 20
WidePadding == 4

SmallBoxes == {b \in (0..MaxCoord) \X (0..MaxCoord) \X (0..MaxCoord) \X (0..MaxCoord) :
                  b[1] < b[3] /\ b[2] < b[4]}
BBoxes == SmallBoxes \cup
          {<<b[1] + WideShift, b[2] + WideShift, b[3] + WideShift, b[4] + WideShift>> :
              b \in SmallBoxes}
FrameShapes == ((1..MaxFrame) \X (1..MaxFrame))
               \cup {<<WideFrame, WideFrame>>, <<12, WideFrame>>, <<WideFrame, 6>>}
Paddings == (0..MaxPadding) \cup {WidePadding}
\* none, below min_head_space, on it, inside the band, on max_head_space, above
HeadSpaceRatios == {<<0, 1>>, <<1, 50>>, <<1, 20>>, <<3, 20>>, <<1, 4>>, <<3, 10>>}
\* the head space ratio matters to a person only: other categories get none,
\* and an object also one that would move a person
CategoryInputs ==
    {<<"person", h>> : h \in HeadSpaceRatios}
    \cup {<<"animal", <<0, 1>>>>, <<"object", <<0, 1>>>>, <<"object", <<3, 10>>>>}
Ulps == (0..1) \X (0..1)

InitCrop ==
    /\ cropper \in {SmartCropper(f, p) : f \in Formats, p \in Paddings}
    /\ frame_shape \in FrameShapes
    /\ subject_bbox \in BBoxes
    /\ \E c \in CategoryInputs : category = c[1] /\ head_space_ratio = c[2]
    /\ crop_dims = NoValue
    /\ crop_box = NoValue
    /\ quality = NoValue
    /\ cpc = "start"
    /\ IdleIou /\ IdleRuns /\ IdleEnsemble /\ IdleDriver

\* one call of calculate_crop_box on the inputs
CalculateCropBox ==
    /\ cpc = "start"
    /\ \E ulp \in Ulps :
          crop_box' = calculate_crop_box(cropper, frame_shape, subject_bbox,
                                         category, head_space_ratio, ulp)
    /\ crop_dims' = CropDimensions(cropper, subject_bbox)
    /\ cpc' = "cropped"
    /\ UNCHANGED <<cropper, frame_shape, subject_bbox, category,
                   head_space_ratio, quality>>
    /\ UNCHANGED <<iouVars, runVars, ensVars, drvVars>>

\* one call of calculate_quality_score on the crop box
CalculateQualityScore ==
    /\ cpc = "cropped"
    /\ quality' = calculate_quality_score(frame_shape, crop_box, subject_bbox)
    /\ cpc' = "scored"
    /\ UNCHANGED <<cropper, frame_shape, subject_bbox, category,
                   head_space_ratio, crop_dims, crop_box>>
    /\ UNCHANGED <<iouVars, runVars, ensVars, drvVars>>

NextCrop == CalculateCropBox \/ CalculateQualityScore

SpecCrop == InitCrop /\ [][NextCrop]_vars

(***************************************************************************)
(* The cropper on full-size frames: a portrait or landscape HD frame, a    *)
(* subject of 200 x 300 pixels in its upper part or at its lower right     *)
(* corner, the paddings 0, 100 and the default 500.                        *)
(***************************************************************************)
HDShapes == {<<1920, 1080>>, <<1080, 1920>>}
HDBoxes == {<<800, 400, 1000, 700>>, <<880, 780, 1080, 1080>>}
HDPaddings == {0, 100, 500}

InitExample ==
    /\ cropper \in {SmartCropper(f, p) : f \in Formats, p \in HDPaddings}
    /\ frame_shape \in HDShapes
    /\ subject_bbox \in HDBoxes
    /\ \E c \in CategoryInputs : category = c[1] /\ head_space_ratio = c[2]
    /\ crop_dims = NoValue
    /\ crop_box = NoValue
    /\ quality = NoValue
    /\ cpc = "start"
    /\ IdleIou /\ IdleRuns /\ IdleEnsemble /\ IdleDriver

SpecExample == InitExample /\ [][NextCrop]_vars

(***************************************************************************)
(* The IoU scenario: calculate_iou on two boxes, in both argument orders.  *)
(***************************************************************************)
IouBoxes == {b \in (0..MaxIouCoord) \X (0..MaxIouCoord) \X (0..MaxIouCoord)
                     \X (0..MaxIouCoord) : b[1] < b[3] /\ b[2] < b[4]}

InitIou ==
    /\ iou_boxes \in IouBoxes \X IouBoxes
    /\ iou = NoValue
    /\ iou_swapped = NoValue
    /\ ipc = "start"
    /\ IdleCrop /\ IdleEnsemble /\ IdleDriver /\ IdleRuns

CalculateIou ==
    /\ ipc = "start"
    /\ iou' = calculate_iou(iou_boxes[1], iou_boxes[2])
    /\ ipc' = "once"
    /\ UNCHANGED <<iou_boxes, iou_swapped, cropVars, runVars, ensVars, drvVars>>

CalculateIouSwapped ==
    /\ ipc = "once"
    /\ iou_swapped' = calculate_iou(iou_boxes[2], iou_boxes[1])
    /\ ipc' = "both"
    /\ UNCHANGED <<iou_boxes, iou, cropVars, runVars, ensVars, drvVars>>

NextIou == CalculateIou \/ CalculateIouSwapped

SpecIou == InitIou /\ [][NextIou]_vars

(***************************************************************************)
(* The detector scenario: an EnsembleDetector is constructed, detect runs  *)
(* its models on a frame and votes, get_primary_subject picks the subject. *)
(***************************************************************************)
Models == <<"yolo", "detr", "fasterrcnn">>

\* ensemble_detector.py 167, 219, 268: the class name a model reports
ClassName(model, class_id) ==
    IF model = "yolo"
    THEN (IF class_id = 0 THEN "person" ELSE "dog")
    ELSE (IF class_id = 0 THEN "class_0" ELSE "class_16")

\* three boxes in a chain: each overlaps the next with IoU 0.6, the first and
\* the last with IoU 1/3
VoteBoxes == {<<0, 0, 4, 2>>, <<1, 0, 5, 2>>, <<2, 0, 6, 2>>}
\* the confidence a model reports, in hundredths
ModelConfidence(model) ==
    CASE model = "yolo" -> 60 [] model = "detr" -> 90 [] OTHER -> 75

Detection(bbox, class_id, model) ==
    [bbox |-> bbox, confidence |-> ModelConfidence(model), class_id |-> class_id,
     class_name |-> ClassName(model, class_id), model_source |-> model]

\* what a model can report on the frame: a person at each box of the chain,
\* and a dog at the middle one
RawDetections(model) ==
    {Detection(b, 0, model) : b \in VoteBoxes}
    \cup {Detection(<<1, 0, 5, 2>>, 16, model)}

SeqsUpTo(S, n) == UNION {[1..k -> S] : k \in 0..n}

\* the orders a set of the three model names can iterate in
ModelOrders ==
    {o \in [1..3 -> {"yolo", "detr", "fasterrcnn"}] :
        \A i, j \in 1..3 : i # j => o[i] # o[j]}

\* cli.py 68-73, main_window.py 700-715: the models a user can select, and the
\* voting threshold asked for
ModelChoices == {<<"yolo", "detr", "fasterrcnn">>, <<"yolo", "detr">>, <<"yolo">>}
VotingThresholds == 1..3

\* a detector is constructed on a machine where every model loads
InitEnsemble ==
    /\ requested \in [models_to_use : ModelChoices, voting_threshold : VotingThresholds]
    /\ weights = ModelNames
    /\ detector = EnsembleDetector(requested.models_to_use,
                                   requested.voting_threshold, weights)
    /\ load_attempts = [m \in ModelNames |->
                           IF m = "yolo" /\ InUse(requested, m) THEN 1 ELSE 0]
    /\ invoked = <<>>
    /\ detect_calls = 0
    /\ all_detections = <<>>
    /\ detection_groups = <<>>
    /\ voted = <<>>
    /\ consensus_detections = <<>>
    /\ detections = NoValue
    /\ primary = NoValue
    /\ epc = "ready"
    /\ IdleCrop /\ IdleIou /\ IdleRuns /\ IdleDriver

\* the position of a model in the order detect invokes the models
ModelIndex(m) == CHOOSE k \in 1..Len(Models) : Models[k] = m

\* ensemble_detector.py 372-382: the lists detect can collect on a frame: the
\* detections of the models that run, yolo's first, then detr's, then
\* fasterrcnn's
DetectionLists(self) ==
    LET used == {m \in ModelNames : Runs(self, m)}
        raw  == UNION {RawDetections(m) : m \in used}
    IN  {dets \in SeqsUpTo(raw, MaxDetections) :
            \A i \in 1..Len(dets) : \A j \in (i + 1)..Len(dets) :
                ModelIndex(dets[i].model_source) <= ModelIndex(dets[j].model_source)}

\* ensemble_detector.py 362-410: EnsembleDetector.detect on one frame
Detect ==
    /\ epc = "ready"
    /\ detector' = AfterLoads(detector, weights)
    /\ load_attempts' = [m \in ModelNames |->
                            IF /\ m # "yolo"
                               /\ detector.models[m] # "absent"
                               /\ TriesLoad(detector, m)
                            THEN load_attempts[m] + 1
                            ELSE load_attempts[m]]
    /\ invoked' = Invoked(detector')
    /\ \E dets \in DetectionLists(detector') :
          LET groups == GroupDetections(detector', dets, 1, <<>>)
          IN  /\ all_detections' = dets
              /\ detection_groups' = groups
              /\ voted' = PassingGroups(detector', groups, 1)
              /\ \E order \in ModelOrders :
                    consensus_detections' = ensemble_voting(detector', dets, order)
              /\ detections' = Categorize(consensus_detections')
    /\ detect_calls' = detect_calls + 1
    /\ epc' = "detected"
    /\ UNCHANGED <<requested, weights, primary, cropVars, iouVars, runVars, drvVars>>

\* get_primary_subject on the detections of the frame
GetPrimarySubject ==
    /\ epc \in {"detected", "given"}
    /\ primary' = get_primary_subject(detections)
    /\ epc' = "selected"
    /\ UNCHANGED <<detector, all_detections, detection_groups, voted,
                   consensus_detections, detections, requested, weights,
                   load_attempts, invoked, detect_calls, cropVars, iouVars, runVars,
                   drvVars>>

NextEnsemble == Detect \/ GetPrimarySubject

SpecEnsemble == InitEnsemble /\ [][NextEnsemble]_vars

(***************************************************************************)
(* The loading scenario: a detector is constructed on a machine where not  *)
(* every model loads, and detect is called on one frame after another.     *)
(***************************************************************************)
MaxDetectCalls == 2

InitLoad ==
    /\ requested \in [models_to_use : ModelChoices, voting_threshold : VotingThresholds]
    /\ weights \in SUBSET ModelNames \ {ModelNames}
    /\ detector = EnsembleDetector(requested.models_to_use,
                                   requested.voting_threshold, weights)
    /\ load_attempts = [m \in ModelNames |->
                           IF m = "yolo" /\ InUse(requested, m) THEN 1 ELSE 0]
    /\ invoked = <<>>
    /\ detect_calls = 0
    /\ all_detections = <<>>
    /\ detection_groups = <<>>
    /\ voted = <<>>
    /\ consensus_detections = <<>>
    /\ detections = NoValue
    /\ primary = NoValue
    /\ epc = "ready"
    /\ IdleCrop /\ IdleIou /\ IdleRuns /\ IdleDriver

\* detect has returned and the caller goes on to the next frame: the lists of
\* the call are gone, the detector keeps its models
NextFrame ==
    /\ epc = "detected"
    /\ detect_calls < MaxDetectCalls
    /\ all_detections' = <<>>
    /\ detection_groups' = <<>>
    /\ voted' = <<>>
    /\ consensus_detections' = <<>>
    /\ detections' = NoValue
    /\ invoked' = <<>>
    /\ epc' = "ready"
    /\ UNCHANGED <<detector, primary, requested, weights, load_attempts,
                   detect_calls, cropVars, iouVars, runVars, drvVars>>

NextLoad == Detect \/ NextFrame

SpecLoad == InitLoad /\ [][NextLoad]_vars

(***************************************************************************)
(* The subject scenario: get_primary_subject on the categorized detections *)
(* a detector returned (ObjectDetector.detect's, any lists).               *)
(***************************************************************************)
\* the detections of a category: areas 1, 2, 2, 4 with confidences 1.0, 0.5,
\* 1.0, 0.5, so that scores tie inside a category and across categories
CategoryDetections(class_id, class_name) ==
    {[bbox |-> b[1], confidence |-> b[2], class_id |-> class_id,
      class_name |-> class_name] :
        b \in {<<<<0, 0, 1, 1>>, 100>>, <<<<0, 0, 2, 1>>, 50>>,
               <<<<1, 1, 2, 3>>, 100>>, <<<<1, 1, 3, 3>>, 50>>}}

InitSubject ==
    /\ detections \in
          [person : SeqsUpTo(CategoryDetections(0, "person"), MaxPerCategory),
           animal : SeqsUpTo(CategoryDetections(16, "dog"), MaxPerCategory),
           object : SeqsUpTo(CategoryDetections(39, "bottle"), MaxPerCategory)]
    /\ detector = NoValue
    /\ all_detections = <<>>
    /\ detection_groups = <<>>
    /\ voted = <<>>
    /\ consensus_detections = <<>>
    /\ primary = NoValue
    /\ epc = "given"
    /\ requested = NoValue /\ weights = {} /\ load_attempts = <<>>
    /\ invoked = <<>> /\ detect_calls = 0
    /\ IdleCrop /\ IdleIou /\ IdleRuns /\ IdleDriver

NextSubject == GetPrimarySubject

SpecSubject == InitSubject /\ [][NextSubject]_vars

(***************************************************************************)
(* The video drivers: UnifiedVideoProcessor (standard and turbo),          *)
(* VideoProcessor and OptimizedVideoProcessor.  A frame is what the        *)
(* detectors see in it: whether quick_text_check finds text, and the       *)
(* categorized detections detect returns.  cap.read() gives any frame of   *)
(* the palette, or the end of the video.                                   *)
(***************************************************************************)
MaxReads == 2      \* frames read from all the videos of a run
MaxVideos == 2     \* videos given to a UnifiedVideoProcessor
MaxBatch == 2      \* batch_size

\* unified_processor.py 103-114: _create_empty_stats (without the clock)
EmptyStats ==
    [processed_frames |-> 0, saved_frames |-> 0, skipped_text |-> 0,
     skipped_no_detection |-> 0, person_frames |-> 0, animal_frames |-> 0,
     object_frames |-> 0]

\* a gate that is open for every score
QualityAcceptableAlways(quality_) == quality_[1] >= 0

\* unified_processor.py 404, video_processor.py 204, optimized_processor.py
\* 229: quality > 0.3
QualityAcceptable(quality_) == RatLt(<<3, 10>>, quality_)

\* the locals of a handler that found no subject, or did not look for one
NoLocals ==
    [category |-> NoValue, bbox |-> <<>>, head_space |-> <<>>,
     crop_dims |-> <<>>, crop_box |-> <<>>, quality |-> <<>>]

\* unified_processor.py 365-402 (video_processor.py 164-201,
\* optimized_processor.py 190-227): the locals of the frame's handling
FrameLocals(self_cropper, shape, frame_, ulp) ==
    LET subject == get_primary_subject(frame_.detections)
    IN  IF subject[1] = NoValue
        THEN NoLocals
        ELSE LET bbox == subject[2].bbox
                 head_space == IF subject[1] = "person"
                               THEN calculate_head_space(bbox, shape[1])
                               ELSE <<0, 1>>
                 box == calculate_crop_box(self_cropper, shape, bbox,
                                           subject[1], head_space, ulp)
             IN  [category |-> subject[1], bbox |-> bbox,
                  head_space |-> head_space,
                  crop_dims |-> CropDimensions(self_cropper, bbox),
                  crop_box |-> box,
                  quality |-> calculate_quality_score(shape, box, bbox)]

\* unified_processor.py 412-417 with 125-127: the directory of a category, as
\* the last component of its path
OutputDir(category_) ==
    IF category_ = "person" THEN "persons"
    ELSE IF category_ = "animal" THEN "animals"
    ELSE "objects"

\* unified_processor.py 409-422 (video_processor.py 216-243,
\* optimized_processor.py 234-247): save_cropped_frame, the file written
save_cropped_frame(video, category_, frame_number, quality_) ==
    [video |-> video, dir |-> OutputDir(category_), frame_number |-> frame_number,
     q |-> (quality_[1] * 100) \div quality_[2]]

\* a handler that counts a saved crop in saved_frames alone
RecordSavedOnly(stats_, files_, video, frame_number, locals) ==
    IF locals.category = NoValue
    THEN <<[stats_ EXCEPT !.skipped_no_detection = @ + 1], files_>>
    ELSE IF QualityAcceptable(locals.quality)
         THEN <<[stats_ EXCEPT !.saved_frames = @ + 1],
                files_ \cup {save_cropped_frame(video, locals.category,
                                                frame_number, locals.quality)}>>
         ELSE <<stats_, files_>>

\* unified_processor.py 371-373 and 404-407: what the handler does with the
\* subject it found: <<stats, files>> after it
RecordFrame(stats_, files_, video, frame_number, locals) ==
    IF locals.category = NoValue
    THEN <<[stats_ EXCEPT !.skipped_no_detection = @ + 1], files_>>
    ELSE IF QualityAcceptable(locals.quality)
         THEN <<[stats_ EXCEPT !.saved_frames = @ + 1,
                               ![locals.category \o "_frames"] = @ + 1],
                files_ \cup {save_cropped_frame(video, locals.category,
                                                frame_number, locals.quality)}>>
         ELSE <<stats_, files_>>

\* unified_processor.py 359-360, 342-343, optimized_processor.py 177-178:
\* quick_text_check is called on the frame
ChecksText(self, skip_text, use_quick_text) ==
    skip_text /\ self.text_detector /\ use_quick_text

\* the text check of one frame: skip_text and self.text_detector and
\* use_quick_text and quick_text_check(frame)
SkipsText(self, skip_text, use_quick_text, frame_) ==
    ChecksText(self, skip_text, use_quick_text) /\ frame_.text

\* unified_processor.py 365-407 (video_processor.py 162-207): the handler from
\* the call of the detector on, as <<stats, files, locals, raised>>; an
\* exception of detect leaves the handler at once
DetectAndCrop(self, stats_, files_, video, frame_, frame_number, shape, ulp) ==
    IF frame_.raises
    THEN <<stats_, files_, NoLocals, TRUE>>
    ELSE LET locals == FrameLocals(self.cropper, shape, frame_, ulp)
             after  == RecordFrame(stats_, files_, video, frame_number, locals)
         IN  <<after[1], after[2], locals, FALSE>>

\* the handler without the return after the text skip
ProcessTextFrameToo(self, stats_, files_, video, frame_, frame_number, skip_text, use_quick_text, shape, ulp) ==
    IF ChecksText(self, skip_text, use_quick_text) /\ frame_.raises
    THEN <<stats_, files_, NoLocals, TRUE>>
    ELSE IF SkipsText(self, skip_text, use_quick_text, frame_)
    THEN DetectAndCrop(self, [stats_ EXCEPT !.skipped_text = @ + 1], files_,
                       video, frame_, frame_number, shape, ulp)
    ELSE DetectAndCrop(self, stats_, files_, video, frame_, frame_number, shape, ulp)

\* unified_processor.py 356-407: _process_single_frame, as
\* <<stats, files, locals, raised>>; no statement of it is inside a try, so
\* an exception of quick_text_check or of detect leaves it
process_single_frame(self, stats_, files_, video, frame_, frame_number, skip_text, use_quick_text, shape, ulp) ==
    IF ChecksText(self, skip_text, use_quick_text) /\ frame_.raises
    THEN <<stats_, files_, NoLocals, TRUE>>
    ELSE IF SkipsText(self, skip_text, use_quick_text, frame_)
    THEN <<[stats_ EXCEPT !.skipped_text = @ + 1], files_, NoLocals, FALSE>>
    ELSE DetectAndCrop(self, stats_, files_, video, frame_, frame_number, shape, ulp)

\* video_processor.py 150-207: the rest of the loop body of process_video
\* after the counters, as <<stats, files, locals, raised>>
VideoLoopBody(self, stats_, files_, video, frame_, frame_number, skip_text, use_quick_text, shape, ulp) ==
    IF skip_text /\ use_quick_text /\ frame_.raises
    THEN <<stats_, files_, NoLocals, TRUE>>
    ELSE IF skip_text /\ use_quick_text /\ frame_.text
    THEN <<[stats_ EXCEPT !.skipped_text = @ + 1], files_, NoLocals, FALSE>>
    ELSE DetectAndCrop(self, stats_, files_, video, frame_, frame_number, shape, ulp)

\* optimized_processor.py 188-232: one unmasked frame of _process_batch
OptimizedBatchBody(self, stats_, files_, video, frame_, frame_number, shape, ulp) ==
    DetectAndCrop(self, [stats_ EXCEPT !.processed_frames = @ + 1], files_,
                  video, frame_, frame_number, shape, ulp)

\* unified_processor.py 349-354: one unmasked frame of _process_batch
UnifiedBatchBody(self, stats_, files_, video, frame_, frame_number, shape, ulp) ==
    process_single_frame(self, [stats_ EXCEPT !.processed_frames = @ + 1],
                         files_, video, frame_, frame_number, FALSE, FALSE,
                         shape, ulp)

\* what a detector returns for a frame
FrameDetection(bbox, class_id, class_name) ==
    [bbox |-> bbox, confidence |-> 90, class_id |-> class_id,
     class_name |-> class_name]

NoDetections == [person |-> <<>>, animal |-> <<>>, object |-> <<>>]

\* a person, a dog and a cup in the middle of a 40 x 40 frame, a bottle that
\* fills it
PersonMiddle ==
    [NoDetections EXCEPT !.person = <<FrameDetection(<<18, 16, 22, 24>>, 0, "person")>>]
AnimalMiddle ==
    [NoDetections EXCEPT !.animal = <<FrameDetection(<<16, 18, 24, 22>>, 16, "dog")>>]
ObjectMiddle ==
    [NoDetections EXCEPT !.object = <<FrameDetection(<<14, 14, 26, 26>>, 41, "cup")>>]
ObjectFull ==
    [NoDetections EXCEPT !.object = <<FrameDetection(<<0, 0, 40, 40>>, 39, "bottle")>>]

\* the dog stands in the one frame with text in it; on one frame the
\* collaborators fail: quick_text_check and detect raise an exception when
\* they are called on it
Frames ==
    {[text |-> FALSE, detections |-> d, raises |-> FALSE] :
        d \in {NoDetections, PersonMiddle, ObjectMiddle, ObjectFull}}
    \cup {[text |-> TRUE, detections |-> AnimalMiddle, raises |-> FALSE]}
    \cup {[text |-> FALSE, detections |-> NoDetections, raises |-> TRUE]}

\* the processors the entry points build (cli.py 175-190, main_window.py
\* 729-756): the text detector is there when text is to be skipped
Processors ==
    {[kind |-> "unified", use_turbo |-> t,
      batch_size |-> IF t THEN MaxBatch ELSE 4, text_detector |-> d,
      cropper |-> SmartCropper("1:1", 2), videos |-> n] :
        t \in BOOLEAN, d \in BOOLEAN, n \in 1..MaxVideos}
    \cup {[kind |-> "video", use_turbo |-> FALSE, batch_size |-> 4,
           text_detector |-> d, cropper |-> SmartCropper("1:1", 2),
           videos |-> 1] : d \in BOOLEAN}
    \cup {[kind |-> "optimized", use_turbo |-> TRUE, batch_size |-> MaxBatch,
           text_detector |-> d, cropper |-> SmartCropper("1:1", 2),
           videos |-> 1] : d \in BOOLEAN}

Calls ==
    [frame_interval : 1..2, skip_text : BOOLEAN, use_quick_text_check : BOOLEAN,
     stop_callback : BOOLEAN]

Batched(self) == self.kind = "optimized" \/ (self.kind = "unified" /\ self.use_turbo)

\* unified_processor.py 74-79: overall_stats (without the clock)
EmptyOverallStats(self) ==
    [total_videos |-> self.videos, processed_videos |-> 0,
     total_frames_saved |-> 0, videos_stats |-> <<>>]

InitDriver ==
    /\ processor \in Processors
    /\ call \in {c \in Calls : c.skip_text = processor.text_detector}
    /\ readable \in [1..processor.videos -> BOOLEAN]
    /\ stop_requested = FALSE
    /\ video_idx = 0
    /\ cap = "none"
    /\ reads = 0
    /\ frame_count = 0
    /\ processed_count = 0
    /\ frame = <<>>
    /\ frame_batch = <<>>
    /\ frame_numbers = <<>>
    /\ text_mask = <<>>
    /\ batch_i = 0
    /\ flushing = FALSE
    /\ stats = EmptyStats
    /\ stats_entry = 0
    /\ overall_stats = EmptyOverallStats(processor)
    /\ files = {}
    /\ dpc = "start"
    /\ cropper = processor.cropper
    /\ frame_shape = <<0, 0>>
    /\ subject_bbox = <<>> /\ category = NoValue /\ head_space_ratio = <<>>
    /\ crop_dims = <<>> /\ crop_box = <<>> /\ quality = <<>>
    /\ cpc = "idle"
    /\ IdleIou /\ IdleRuns /\ IdleEnsemble

\* a driver that never sees the stop signal
NeverStopping == FALSE

\* stop_callback and stop_callback()
Stopping == call.stop_callback /\ stop_requested

\* the user asks to stop (main_window.py: the worker's should_stop flag)
RequestStop ==
    /\ dpc \in {"start", "loop", "frame", "mask", "batch", "finally", "raised"}
    /\ call.stop_callback
    /\ ~stop_requested
    /\ stop_requested' = TRUE
    /\ UNCHANGED <<processor, call, readable, video_idx, cap, reads, frame_count,
                   processed_count, frame, frame_batch, frame_numbers,
                   text_mask, batch_i, flushing, stats, stats_entry,
                   overall_stats, files, dpc, cropVars, iouVars, runVars, ensVars>>

\* an entry taken without adding its saved frames to the total
AddUncounted(overall, video_name, video_stats) ==
    [overall EXCEPT !.processed_videos = @ + 1,
                    !.videos_stats = Append(@, [video_name |-> video_name,
                                                stats      |-> video_stats])]

\* unified_processor.py 202-207: process_all_videos takes the stats of a
\* video; the name of a video is its place in video_paths
AddVideoStats(overall, video_name, video_stats) ==
    [overall EXCEPT !.processed_videos = @ + 1,
                    !.total_frames_saved = @ + video_stats.saved_frames,
                    !.videos_stats = Append(@, [video_name |-> video_name,
                                                stats      |-> video_stats])]

\* statistics that run on from one video to the next, in the same dict
KeepStats(self, stats_, entry) == <<stats_, entry>>

\* unified_processor.py 233: self.stats = self._create_empty_stats(), a new
\* dict that no entry of videos_stats holds; the single-video drivers keep
\* the dict of their constructor.  <<contents, entry that holds the dict>>
ResetStats(self, stats_, entry) ==
    IF self.kind = "unified" THEN <<EmptyStats, 0>> ELSE <<stats_, entry>>

\* videos_stats holds the dict process_single_video returned, not a copy of
\* it (unified_processor.py 204-207, 260): what is written to self.stats
\* while an entry holds that dict is written to the entry
SharedStats(overall, entry, stats_) ==
    IF entry = 0
    THEN overall
    ELSE [overall EXCEPT !.videos_stats[entry].stats = stats_]

\* where a driver goes when the video cannot be opened. process_single_video
\* returns empty statistics (unified_processor.py 225-226) and the loop of
\* process_all_videos goes on with the next path (181-207); process_video of
\* the single-video drivers returns at once
AbortRun(self) == "done"
AfterFailedOpen(self) == IF self.kind = "unified" THEN "start" ELSE "done"

\* unified_processor.py 181-199 and 225-234: the head of an iteration of
\* process_all_videos and process_single_video up to its try;
\* video_processor.py 118-122, optimized_processor.py 113-121: process_video
\* up to its try
StartVideo ==
    /\ dpc = "start"
    /\ IF processor.kind = "unified" /\ (video_idx = processor.videos \/ Stopping)
       THEN /\ dpc' = "done"
            /\ UNCHANGED <<video_idx, cap, frame_shape, stats, stats_entry,
                           overall_stats>>
       ELSE LET opened == readable[video_idx + 1]
            IN
              /\ video_idx' = video_idx + 1
              /\ IF opened
                 THEN /\ cap' = "open"
                      /\ frame_shape' = <<40, 40>>
                      /\ stats' = ResetStats(processor, stats, stats_entry)[1]
                      /\ stats_entry' = ResetStats(processor, stats, stats_entry)[2]
                      /\ dpc' = "loop"
                      /\ UNCHANGED overall_stats
                 ELSE /\ cap' = "failed"
                      /\ overall_stats' =
                            IF processor.kind = "unified"
                            THEN AddVideoStats(overall_stats, video_idx + 1,
                                               EmptyStats)
                            ELSE overall_stats
                      /\ dpc' = AfterFailedOpen(processor)
                      /\ UNCHANGED <<frame_shape, stats, stats_entry>>
    /\ frame_count' = 0
    /\ processed_count' = 0
    /\ frame_batch' = <<>>
    /\ frame_numbers' = <<>>
    /\ UNCHANGED <<processor, call, readable, stop_requested, reads, frame, text_mask,
                   batch_i, flushing, files, cropper, subject_bbox, category,
                   head_space_ratio, crop_dims, crop_box, quality, cpc,
                   iouVars, runVars, ensVars>>

\* the locals of the last handled frame, kept where the cropper's calls are
SetLocals(locals) ==
    /\ category' = locals.category
    /\ subject_bbox' = locals.bbox
    /\ head_space_ratio' = locals.head_space
    /\ crop_dims' = locals.crop_dims
    /\ crop_box' = locals.crop_box
    /\ quality' = locals.quality

\* the loop breaks with frames in frame_batch: unified_processor.py 306-309
\* and 313-316 flush them; optimized_processor.py 126-128 drops them on a
\* stop and 132-136 flushes them at the end of the video
BreakLoop(flush) ==
    /\ IF flush /\ frame_batch # <<>>
       THEN dpc' = "mask" /\ flushing' = TRUE
       ELSE dpc' = "finally" /\ UNCHANGED flushing
    /\ UNCHANGED <<reads, frame_count, processed_count, frame, frame_batch,
                   frame_numbers, stats>>

\* the frames the videos of a run hold at most: a batched run of one video
\* that cannot be stopped gets one frame more, so that a full batch can be
\* followed by a smaller last one
ReadLimit ==
    IF Batched(processor) /\ processor.videos = 1 /\ ~call.stop_callback
                          /\ call.frame_interval = 1
    THEN MaxReads + 1
    ELSE MaxReads

\* a batch that is passed on one frame late
BatchOverfull(self, batch) == Len(batch) > self.batch_size

\* unified_processor.py 324, optimized_processor.py 147:
\* len(frame_batch) >= self.batch_size
BatchFull(self, batch) == Len(batch) >= self.batch_size

\* frames numbered from 0
SampledFromZero(frame_count_, frame_interval) ==
    (frame_count_ - 1) % frame_interval = 0

\* unified_processor.py 279-282 and 316-319, video_processor.py 135-139,
\* optimized_processor.py 137-141: frame_count is 1 at the first frame read,
\* and the loop goes on only when frame_count % frame_interval is 0
Sampled(frame_count_, frame_interval) == frame_count_ % frame_interval = 0

\* one iteration of the while loop up to the handling of the frame:
\* unified_processor.py 271-284 (standard) and 305-329 (turbo),
\* video_processor.py 125-143, optimized_processor.py 124-152
ReadFrame ==
    /\ dpc = "loop"
    /\ IF Stopping
       THEN BreakLoop(processor.kind = "unified")
       ELSE \E ret \in {r \in BOOLEAN : r => reads < ReadLimit} :
              IF ~ret
              THEN BreakLoop(TRUE)
              ELSE \E f \in Frames :
                     /\ reads' = reads + 1
                     /\ frame_count' = frame_count + 1
                     /\ IF ~Sampled(frame_count + 1, call.frame_interval)
                        THEN /\ dpc' = "loop"
                             /\ UNCHANGED <<processed_count, frame, frame_batch,
                                            frame_numbers, flushing, stats>>
                        ELSE IF Batched(processor)
                        THEN /\ frame_batch' = Append(frame_batch, f)
                             /\ frame_numbers' = Append(frame_numbers, frame_count + 1)
                             /\ dpc' = IF BatchFull(processor, frame_batch')
                                       THEN "mask" ELSE "loop"
                             /\ flushing' = FALSE
                             /\ UNCHANGED <<processed_count, frame, stats>>
                        ELSE /\ frame' = <<f>>
                             /\ processed_count' = processed_count + 1
                             /\ stats' =
                                   IF processor.kind = "video"
                                   THEN [stats EXCEPT !.processed_frames =
                                                          processed_count + 1]
                                   ELSE [stats EXCEPT !.processed_frames = @ + 1]
                             /\ dpc' = "frame"
                             /\ UNCHANGED <<frame_batch, frame_numbers, flushing>>
    /\ UNCHANGED <<processor, call, readable, stop_requested, video_idx, cap, text_mask,
                   batch_i, stats_entry, files, cropVars, iouVars, runVars,
                   ensVars>>
    /\ overall_stats' = SharedStats(overall_stats, stats_entry, stats')

\* the handling of the frame read, in the same iteration:
\* unified_processor.py 292 (_process_single_frame, 356-407),
\* video_processor.py 150-207
ProcessFrame ==
    /\ dpc = "frame"
    /\ \E after \in
            {IF processor.kind = "video"
             THEN VideoLoopBody(processor, stats, files, video_idx,
                      frame[1], frame_count, call.skip_text,
                      call.use_quick_text_check, frame_shape, ulp)
             ELSE process_single_frame(processor, stats, files,
                      video_idx, frame[1], frame_count, call.skip_text,
                      call.use_quick_text_check, frame_shape, ulp) : ulp \in Ulps} :
              /\ stats' = after[1]
              /\ files' = after[2]
              /\ SetLocals(after[3])
              /\ dpc' = IF after[4] THEN "raised" ELSE "loop"
    /\ frame' = <<>>
    /\ UNCHANGED <<processor, call, readable, stop_requested, video_idx, cap, reads,
                   frame_count, processed_count, frame_batch, frame_numbers,
                   text_mask, batch_i, flushing, stats_entry, cropper,
                   frame_shape, cpc, iouVars, runVars, ensVars>>
    /\ overall_stats' = SharedStats(overall_stats, stats_entry, stats')

\* how many frames of the batch the mask holds
RECURSIVE CountMasked(_, _)
CountMasked(mask, i) ==
    IF i > Len(mask) THEN 0
    ELSE (IF mask[i] THEN 1 ELSE 0) + CountMasked(mask, i + 1)

\* unified_processor.py 338-346, optimized_processor.py 173-181: the text
\* mask of _process_batch
BatchTextMask ==
    /\ dpc = "mask"
    /\ LET checks == ChecksText(processor, call.skip_text,
                                call.use_quick_text_check)
           \* the frames of the batch on which quick_text_check raises
           failing == {i \in 1..Len(frame_batch) : checks /\ frame_batch[i].raises}
       IN  /\ text_mask' = [i \in 1..Len(frame_batch) |->
                               /\ \A j \in failing : i < j
                               /\ SkipsText(processor, call.skip_text,
                                            call.use_quick_text_check,
                                            frame_batch[i])]
           /\ IF failing = {}
              THEN batch_i' = 1 /\ dpc' = "batch"
              ELSE batch_i' = 0 /\ dpc' = "raised"
    /\ stats' = [stats EXCEPT !.skipped_text = @ + CountMasked(text_mask', 1)]
    /\ UNCHANGED <<processor, call, readable, stop_requested, video_idx, cap, reads,
                   frame_count, processed_count, frame, frame_batch,
                   frame_numbers, flushing, stats_entry, files, cropVars,
                   iouVars, runVars, ensVars>>
    /\ overall_stats' = SharedStats(overall_stats, stats_entry, stats')

\* one iteration of the second loop of _process_batch, and the return from
\* it after the last: unified_processor.py 349-354 and 328-329,
\* optimized_processor.py 184-232 and 151-152
ProcessBatchFrame ==
    /\ dpc = "batch"
    /\ \E after \in
            {IF text_mask[batch_i]
             THEN <<stats, files, NoLocals, FALSE>>
             ELSE IF processor.kind = "optimized"
             THEN OptimizedBatchBody(processor, stats, files,
                      video_idx, frame_batch[batch_i],
                      frame_numbers[batch_i], frame_shape, ulp)
             ELSE UnifiedBatchBody(processor, stats, files,
                      video_idx, frame_batch[batch_i],
                      frame_numbers[batch_i], frame_shape, ulp) : ulp \in Ulps} :
              /\ stats' = after[1]
              /\ files' = after[2]
              /\ SetLocals(after[3])
              /\ IF after[4]
                 THEN /\ dpc' = "raised"
                      /\ UNCHANGED <<batch_i, frame_batch, frame_numbers,
                                     text_mask>>
                 ELSE IF batch_i < Len(frame_batch)
                 THEN /\ batch_i' = batch_i + 1
                      /\ UNCHANGED <<frame_batch, frame_numbers, text_mask, dpc>>
                 ELSE /\ batch_i' = 0
                      /\ frame_batch' = <<>>
                      /\ frame_numbers' = <<>>
                      /\ text_mask' = <<>>
                      /\ dpc' = IF flushing THEN "finally" ELSE "loop"
    /\ UNCHANGED <<processor, call, readable, stop_requested, video_idx, cap, reads,
                   frame_count, processed_count, frame, flushing,
                   stats_entry, cropper, frame_shape, cpc, iouVars, runVars,
                   ensVars>>
    /\ overall_stats' = SharedStats(overall_stats, stats_entry, stats')

\* a finally block that leaves the capture as it is
FinallyWithoutRelease(self, cap_) == cap_

\* unified_processor.py 248-249 (if self.cap: self.cap.release()),
\* video_processor.py 210, optimized_processor.py 160 (self.cap.release()):
\* the capture after the finally block
ReleaseInFinally(self, cap_) ==
    IF self.kind = "unified" /\ cap_ = "none" THEN cap_ ELSE "released"

\* unified_processor.py 247-260 and 202-207, video_processor.py 209-214,
\* optimized_processor.py 159-166: the finally block and the return
FinishVideo ==
    /\ dpc = "finally"
    /\ cap' = ReleaseInFinally(processor, cap)
    /\ overall_stats' = IF processor.kind = "unified"
                        THEN AddVideoStats(overall_stats, video_idx, stats)
                        ELSE overall_stats
    /\ stats_entry' = IF processor.kind = "unified"
                      THEN Len(overall_stats.videos_stats) + 1
                      ELSE stats_entry
    /\ dpc' = IF processor.kind = "unified" THEN "start" ELSE "done"
    /\ frame_batch' = <<>>
    /\ frame_numbers' = <<>>
    /\ flushing' = FALSE
    /\ UNCHANGED <<processor, call, readable, stop_requested, video_idx, reads,
                   frame_count, processed_count, frame, text_mask, batch_i,
                   stats, files, cropVars, iouVars, runVars, ensVars>>

\* an exception of a collaborator leaves the loop: the finally block
\* (unified_processor.py 247-258, video_processor.py 209-212,
\* optimized_processor.py 159-164) releases the capture, and the exception
\* leaves process_single_video and process_all_videos (181-207), resp.
\* process_video, which have no handler for it
PropagateException ==
    /\ dpc = "raised"
    /\ cap' = ReleaseInFinally(processor, cap)
    /\ dpc' = "aborted"
    /\ UNCHANGED <<processor, call, readable, stop_requested, video_idx, reads,
                   frame_count, processed_count, frame, frame_batch,
                   frame_numbers, text_mask, batch_i, flushing, stats,
                   stats_entry, overall_stats, files, cropVars, iouVars, runVars, ensVars>>

NextDriver ==
    \/ RequestStop
    \/ StartVideo
    \/ ReadFrame
    \/ ProcessFrame
    \/ BatchTextMask
    \/ ProcessBatchFrame
    \/ FinishVideo
    \/ PropagateException

SpecDriver == InitDriver /\ [][NextDriver]_vars

(***************************************************************************)
(* One video run through both strategies of UnifiedVideoProcessor: the     *)
(* same frames, the same arguments and the same answers of the             *)
(* collaborators, no stop callback.                                        *)
(***************************************************************************)
MaxVideoLen == 3   \* frames of the video

\* unified_processor.py 262-292: _process_video_standard from the frame after
\* frame_count_ on, as <<stats, files>>
RECURSIVE process_video_standard(_, _, _, _, _, _, _, _)
process_video_standard(self, call_, frames, frame_count_, stats_, files_, shape, ulp) ==
    IF frame_count_ = Len(frames)
    THEN <<stats_, files_>>
    ELSE LET n == frame_count_ + 1
         IN  IF n % call_.frame_interval # 0
             THEN process_video_standard(self, call_, frames, n, stats_,
                                         files_, shape, ulp)
             ELSE LET counted == [stats_ EXCEPT !.processed_frames = @ + 1]
                      after == process_single_frame(self, counted, files_, 1,
                                   frames[n], n, call_.skip_text,
                                   call_.use_quick_text_check, shape, ulp)
                  IN  process_video_standard(self, call_, frames, n, after[1],
                                             after[2], shape, ulp)

\* unified_processor.py 349-354: the second loop of _process_batch from the
\* frame i of the batch on, as <<stats, files>>
RECURSIVE process_unmasked(_, _, _, _, _, _, _, _, _)
process_unmasked(self, batch, numbers, mask, i, stats_, files_, shape, ulp) ==
    IF i > Len(batch)
    THEN <<stats_, files_>>
    ELSE IF mask[i]
    THEN process_unmasked(self, batch, numbers, mask, i + 1, stats_, files_,
                          shape, ulp)
    ELSE LET after == UnifiedBatchBody(self, stats_, files_, 1, batch[i],
                                       numbers[i], shape, ulp)
         IN  process_unmasked(self, batch, numbers, mask, i + 1, after[1],
                              after[2], shape, ulp)

\* unified_processor.py 335-354: _process_batch, as <<stats, files>>
process_batch(self, call_, batch, numbers, stats_, files_, shape, ulp) ==
    LET mask == [i \in 1..Len(batch) |->
                    SkipsText(self, call_.skip_text,
                              call_.use_quick_text_check, batch[i])]
        masked == [stats_ EXCEPT !.skipped_text = @ + CountMasked(mask, 1)]
    IN  process_unmasked(self, batch, numbers, mask, 1, masked, files_, shape, ulp)

\* unified_processor.py 294-333: _process_video_turbo from the frame after
\* frame_count_ on, as <<stats, files>>
RECURSIVE process_video_turbo(_, _, _, _, _, _, _, _, _, _)
process_video_turbo(self, call_, frames, frame_count_, batch, numbers, stats_, files_, shape, ulp) ==
    IF frame_count_ = Len(frames)
    THEN IF batch # <<>>
         THEN process_batch(self, call_, batch, numbers, stats_, files_, shape, ulp)
         ELSE <<stats_, files_>>
    ELSE LET n == frame_count_ + 1
         IN  IF n % call_.frame_interval # 0
             THEN process_video_turbo(self, call_, frames, n, batch, numbers,
                                      stats_, files_, shape, ulp)
             ELSE IF Len(batch) + 1 >= self.batch_size
             THEN LET after == process_batch(self, call_, Append(batch, frames[n]),
                                             Append(numbers, n), stats_, files_,
                                             shape, ulp)
                  IN  process_video_turbo(self, call_, frames, n, <<>>, <<>>,
                                          after[1], after[2], shape, ulp)
             ELSE process_video_turbo(self, call_, frames, n,
                                      Append(batch, frames[n]),
                                      Append(numbers, n), stats_, files_,
                                      shape, ulp)

\* a processor, the arguments of a call without stop callback, and a video
\* on whose frames the collaborators answer
InitRuns ==
    /\ processor \in {[p EXCEPT !.batch_size = b] :
                         p \in {q \in Processors : /\ q.kind = "unified" /\ q.use_turbo
                                                  /\ q.videos = 1},
                         b \in 1..MaxBatch}
    /\ call \in {c \in Calls : c.skip_text = processor.text_detector
                               /\ ~c.stop_callback}
    /\ video_frames \in SeqsUpTo({f \in Frames : ~f.raises}, MaxVideoLen)
    /\ standard_run = <<>>
    /\ turbo_run = <<>>
    /\ rpc = "start"
    /\ readable = <<TRUE>> /\ stop_requested = FALSE
    /\ video_idx = 0 /\ cap = "none" /\ reads = 0 /\ frame_count = 0
    /\ processed_count = 0 /\ frame = <<>> /\ frame_batch = <<>>
    /\ frame_numbers = <<>> /\ text_mask = <<>> /\ batch_i = 0
    /\ flushing = FALSE /\ stats = EmptyStats /\ stats_entry = 0
    /\ overall_stats = EmptyOverallStats(processor)
    /\ files = {} /\ dpc = "idle"
    /\ IdleCrop /\ IdleIou /\ IdleEnsemble

\* process_single_video (unified_processor.py 217-260) on the video, once
\* with use_turbo off and once with it on
RunStandard ==
    /\ rpc \in {"start", "turbo"}
    /\ \E ulp \in Ulps :
          standard_run' = process_video_standard(processor, call, video_frames,
                              0, EmptyStats, {}, <<40, 40>>, ulp)
    /\ rpc' = IF rpc = "start" THEN "standard" ELSE "both"
    /\ UNCHANGED <<video_frames, turbo_run, cropVars, iouVars, ensVars, drvVars>>

RunTurbo ==
    /\ rpc \in {"start", "standard"}
    /\ \E ulp \in Ulps :
          turbo_run' = process_video_turbo(processor, call, video_frames, 0,
                           <<>>, <<>>, EmptyStats, {}, <<40, 40>>, ulp)
    /\ rpc' = IF rpc = "start" THEN "turbo" ELSE "both"
    /\ UNCHANGED <<video_frames, standard_run, cropVars, iouVars, ensVars, drvVars>>

NextRuns == RunStandard \/ RunTurbo

SpecRuns == InitRuns /\ [][NextRuns]_vars

(***************************************************************************)
(* Properties.                                                             *)
(***************************************************************************)
Cropped == cpc \in {"cropped", "scored"}

\* the crop computed before the frame was looked at exceeds the frame
ScaledDown == crop_dims[1] > frame_shape[2] \/ crop_dims[2] > frame_shape[1]

\* C1: the crop box calculate_crop_box returns lies inside the frame:
\* 0 <= x, 0 <= y, x + w <= W and y + h <= H, for every frame size, subject,
\* category, head space ratio and padding, scaled down or not, shifted or not.
C1_CropInsideFrame ==
    Cropped =>
        /\ 0 <= crop_box[1]
        /\ 0 <= crop_box[2]
        /\ crop_box[1] + crop_box[3] <= frame_shape[2]
        /\ crop_box[2] + crop_box[4] <= frame_shape[1]

\* a person's crop that was scaled down and whose centre the head space shift
\* moved by at least a pixel, up from where the unshifted crop would lie
C1_Witness ==
    /\ cpc = "cropped"
    /\ ScaledDown
    /\ category = "person"
    /\ head_space_ratio[1] > 0
    /\ RatLt(head_space_ratio, cropper.min_head_space)
    /\ crop_box[4] \div 10 >= 1
    /\ crop_box[2] > 0
    /\ crop_box[2] = (subject_bbox[2] + subject_bbox[4]) \div 2
                     - crop_box[4] \div 10 - crop_box[4] \div 2

\* the step handles a frame that was read
HandlesFrame == dpc \in {"frame", "batch"}

\* C2: in every driver a crop is written, and saved_frames incremented, only
\* when the frame's quality is above 0.3; a frame found to have a quality of
\* at most 0.3 is not written and changes no counter but processed_frames.
C2_SavedOnlyAboveGate ==
    [][ /\ files' # files =>
              /\ HandlesFrame
              /\ category' \in Categories
              /\ RatLt(<<3, 10>>, quality')
              /\ files \subseteq files'
              /\ Cardinality(files') = Cardinality(files) + 1
              /\ stats'.saved_frames = stats.saved_frames + 1
        /\ (dpc # "idle" /\ stats'.saved_frames > stats.saved_frames) =>
              /\ files' # files
              /\ stats'.saved_frames = stats.saved_frames + 1
        /\ (HandlesFrame /\ category' \in Categories
                /\ ~RatLt(<<3, 10>>, quality')) =>
              /\ files' = files
              /\ \A c \in DOMAIN stats \ {"processed_frames"} :
                    stats'[c] = stats[c]
      ]_vars

\* the optimized driver has written the crop of one frame and has then found
\* the quality of the next frame, a bottle, to be 0.3 or less
C2_Witness ==
    /\ dpc = "finally"
    /\ processor.kind = "optimized"
    /\ category = "object"
    /\ ~RatLt(<<3, 10>>, quality)
    /\ stats.processed_frames = 2
    /\ stats.saved_frames = 1
    /\ Cardinality(files) = 1

\* C7: when the padded crop fits the frame (no scale-down), the width and the
\* height of the crop box match the cropper's aspect ratio r within a pixel:
\* |crop_width - r * crop_height| <= 1, in both branches.
C7_AspectFidelity ==
    (Cropped /\ ~ScaledDown) =>
        /\ crop_box[3] = crop_dims[1]
        /\ crop_box[4] = crop_dims[2]
        /\ Abs(crop_box[3] * cropper.aspect_ratio[2]
               - cropper.aspect_ratio[1] * crop_box[4])
           <= cropper.aspect_ratio[2]

\* a height-constrained crop that fits, whose width int() rounded down
C7_Witness ==
    /\ cpc = "cropped"
    /\ ~ScaledDown
    /\ crop_box[4] = subject_bbox[4] - subject_bbox[2] + 2 * cropper.min_padding
    /\ crop_box[3] * cropper.aspect_ratio[2] < cropper.aspect_ratio[1] * crop_box[4]
    /\ crop_box[3] > 0

\* the width / height ratio a format names
FormatRatio(f) ==
    CASE f = "9:16" -> <<9, 16>>
      [] f = "3:4"  -> <<3, 4>>
      [] f = "1:1"  -> <<1, 1>>
      [] f = "4:5"  -> <<4, 5>>
      [] f = "16:9" -> <<16, 9>>
      [] f = "4:3"  -> <<4, 3>>

\* C8: each of the six selectable formats configures the cropper with that
\* format's own width / height ratio, and a cropper built for "16:9" or "4:3"
\* produces a crop wider than it is tall.
C8_FormatOwnRatio ==
    /\ cpc # "idle" =>
          cropper.aspect_ratio[1] * FormatRatio(cropper.target_format)[2]
          = cropper.aspect_ratio[2] * FormatRatio(cropper.target_format)[1]
    /\ (Cropped /\ ~ScaledDown /\ cropper.target_format \in {"16:9", "4:3"}) =>
          crop_box[3] > crop_box[4]

\* C9: calculate_quality_score returns a value in [0, 1].
C9_QualityBounds ==
    cpc = "scored" => (0 <= quality[1] /\ quality[1] <= quality[2])

\* a subject larger than its crop (coverage above 1.45, where the coverage
\* score is negative) in a crop that touches the frame edges on both sides
C9_Witness ==
    /\ cpc = "scored"
    /\ crop_box[3] * crop_box[4] > 0
    /\ 100 * (subject_bbox[3] - subject_bbox[1]) * (subject_bbox[4] - subject_bbox[2])
       > 145 * crop_box[3] * crop_box[4]
    /\ EdgePenalty(frame_shape, crop_box) = 2
    /\ quality[1] = 0

\* C6: calculate_iou is symmetric, gives 1.0 for a box with itself, and gives 0
\* whenever the boxes do not overlap (intersection width or height <= 0, which
\* includes boxes that only touch).
NoOverlap(box1, box2) ==
    \/ Min(box1[3], box2[3]) - Max(box1[1], box2[1]) <= 0
    \/ Min(box1[4], box2[4]) - Max(box1[2], box2[2]) <= 0

Voted == epc = "detected"

\* C3: every consensus detection comes from a group whose distinct models are
\* at least voting_threshold many, and a group with fewer gives no detection.
C3_ConsensusHasVotes ==
    Voted =>
        /\ Len(consensus_detections) = Len(voted)
        /\ \A k \in 1..Len(voted) :
              /\ voted[k] \in 1..Len(detection_groups)
              /\ \A j \in 1..(k - 1) : voted[j] < voted[k]
              /\ Cardinality(ModelVotes(detection_groups[voted[k]]))
                 >= detector.voting_threshold
              /\ consensus_detections[k].class_id
                 = detection_groups[voted[k]][1].class_id
              /\ consensus_detections[k].bbox[1]
                 = IntMean(detection_groups[voted[k]], 1)
        /\ \A g \in 1..Len(detection_groups) :
              Cardinality(ModelVotes(detection_groups[g])) < detector.voting_threshold
              => \A k \in 1..Len(voted) : voted[k] # g

\* under threshold 2 one group, seen by two models, gives the only consensus
\* and the other group, seen by one model, gives none
C3_Witness ==
    /\ epc = "detected"
    /\ detector.voting_threshold = 2
    /\ Len(detection_groups) = 2
    /\ Len(voted) = 1
    /\ Len(consensus_detections) = 1
    /\ \E g \in 1..2 :
          /\ g # voted[1]
          /\ Cardinality(ModelVotes(detection_groups[g])) = 1

\* C4: every member of a group has the class_id of the group's first member.
C4_GroupClassPurity ==
    Voted =>
        \A g \in 1..Len(detection_groups) :
            \A k \in 1..Len(detection_groups[g]) :
                detection_groups[g][k].class_id = detection_groups[g][1].class_id

\* a detection of another class overlaps a member of a group with IoU >= 0.5
\* and stands in a group of its own
C4_Witness ==
    /\ epc = "detected"
    /\ \E g, h \in 1..Len(detection_groups) :
          /\ g # h
          /\ Len(detection_groups[g]) >= 2
          /\ detection_groups[h][1].class_id # detection_groups[g][1].class_id
          /\ \E k \in 1..Len(detection_groups[g]) :
                RatLe(detector.iou_threshold,
                      calculate_iou(detection_groups[h][1].bbox,
                                    detection_groups[g][k].bbox))

\* sub is seq with some elements left out
RECURSIVE IsSubSeq(_, _)
IsSubSeq(sub, seq) ==
    IF sub = <<>> THEN TRUE
    ELSE IF seq = <<>> THEN FALSE
    ELSE IF Head(sub) = Head(seq)
         THEN IsSubSeq(Tail(sub), Tail(seq))
         ELSE IsSubSeq(sub, Tail(seq))

\* ensemble_voting on the frame's detections with the threshold t
VotingWith(t, order) ==
    ensemble_voting([detector EXCEPT !.voting_threshold = t], all_detections, order)

\* C5: for the same detections and iou_threshold, a higher voting threshold
\* emits no more consensus detections, and only ones the lower one emits.
C5_ConsensusMonotone ==
    Voted =>
        \E order \in ModelOrders :
            /\ consensus_detections = VotingWith(detector.voting_threshold, order)
            /\ LET out == <<VotingWith(0, order), VotingWith(1, order),
                            VotingWith(2, order), VotingWith(3, order),
                            VotingWith(4, order)>>
               IN  \A t1, t2 \in 0..4 :
                       t1 <= t2 =>
                          /\ Len(out[t2 + 1]) <= Len(out[t1 + 1])
                          /\ IsSubSeq(out[t2 + 1], out[t1 + 1])

\* raising the threshold from 1 to 2 drops a consensus and keeps another
C5_Witness ==
    /\ epc = "detected"
    /\ detector.voting_threshold = 1
    /\ Len(consensus_detections) >= 2
    /\ \E order \in ModelOrders :
          /\ Len(VotingWith(2, order)) >= 1
          /\ Len(VotingWith(2, order)) < Len(consensus_detections)

AllEmpty(dets) == dets.person = <<>> /\ dets.animal = <<>> /\ dets.object = <<>>

IsBest(dets, det) ==
    \A c \in {"person", "animal", "object"} :
        \A k \in 1..Len(dets[c]) : SubjectScore(dets[c][k]) <= SubjectScore(det)

\* the first category, in the order person, animal, object, that holds a
\* detection of the best score, and the first such detection in its list
FirstBest(dets) ==
    LET order == <<"person", "animal", "object">>
        has(c) == \E k \in 1..Len(dets[c]) : IsBest(dets, dets[c][k])
        ci == CHOOSE i \in 1..3 : has(order[i]) /\ \A j \in 1..(i - 1) : ~has(order[j])
        c  == order[ci]
        ki == CHOOSE k \in 1..Len(dets[c]) :
                  /\ IsBest(dets, dets[c][k])
                  /\ \A j \in 1..(k - 1) : ~IsBest(dets, dets[c][j])
    IN  <<c, dets[c][ki]>>

\* C10: get_primary_subject returns the detection of maximum area x
\* confidence; on a tie the one met first going through person, animal,
\* object, each in list order; and (None, None) exactly when all are empty.
C10_PrimarySubject ==
    epc = "selected" =>
        IF AllEmpty(detections)
        THEN primary = <<NoValue, NoValue>>
        ELSE /\ primary[1] # NoValue
             /\ primary = FirstBest(detections)

\* the best score is shared by an animal and by two objects, and no person
\* reaches it: the animal is returned
C10_Witness ==
    /\ epc = "selected"
    /\ detections.person # <<>>
    /\ primary[1] = "animal"
    /\ Len(detections.animal) = 2
    /\ primary[2] = detections.animal[2]
    /\ SubjectScore(detections.animal[1]) < SubjectScore(primary[2])
    /\ \E k \in 1..Len(detections.object) :
          SubjectScore(detections.object[k]) = SubjectScore(primary[2])

(***************************************************************************)
(* The merged detection of a group.                                        *)
(***************************************************************************)
\* the frame of the scenario: one detection of yolo and one of detr, of the
\* same class, overlapping with IoU 0.6, voted on with threshold 2
TwoModelsAgree ==
    /\ epc = "detected"
    /\ detector.voting_threshold = 2
    /\ Len(all_detections) = 2
    /\ all_detections[1].model_source = "yolo"
    /\ all_detections[2].model_source = "detr"
    /\ all_detections[1].class_id = all_detections[2].class_id
    /\ LET iou_ == calculate_iou(all_detections[1].bbox, all_detections[2].bbox)
       IN  iou_[1] * 10 = 6 * iou_[2]

\* C11: two detections of one class with IoU 0.6, one of yolo and one of detr,
\* under voting_threshold 2 give exactly one consensus detection, whose
\* model_source is "detr,yolo", whose bbox is the coordinate-wise integer mean
\* of the two boxes and whose confidence is the larger of the two.
C11_MergedDetection ==
    TwoModelsAgree =>
        /\ Len(consensus_detections) = 1
        /\ consensus_detections[1].model_source = "detr,yolo"
        /\ \A c \in 1..4 :
              consensus_detections[1].bbox[c]
              = (all_detections[1].bbox[c] + all_detections[2].bbox[c]) \div 2
        /\ consensus_detections[1].confidence
           = Max(all_detections[1].confidence, all_detections[2].confidence)

(***************************************************************************)
(* Models that fail to load.                                               *)
(***************************************************************************)
\* the loading of the configured model m was tried and failed
LoadFailed(m) ==
    /\ InUse(requested, m)
    /\ load_attempts[m] >= 1
    /\ m \notin weights

\* the configured models whose loading did not fail
Live == {m \in ModelNames : InUse(requested, m) /\ m \in weights}

\* the group's detections come from exactly these models
BackedBy(group, models) == ModelVotes(group) = models

\* C12: the voting threshold of the detector is min(requested threshold,
\* number of configured models) in every state of the run, whatever models
\* failed to load; when fewer models run than the threshold, detect gives no
\* consensus detection; and with threshold 3 asked for two configured models
\* the threshold is 2 and every group backed by both models is emitted.
C12_ThresholdClampedOnce ==
    /\ detector.voting_threshold
       = Min(requested.voting_threshold, Len(requested.models_to_use))
    /\ (epc = "detected" /\ Len(invoked) < detector.voting_threshold)
       => (consensus_detections = <<>> /\ AllEmpty(detections))
    /\ (requested.voting_threshold = 3 /\ Len(requested.models_to_use) = 2)
       => /\ detector.voting_threshold = 2
          /\ epc = "detected" =>
                \A g \in 1..Len(detection_groups) :
                    BackedBy(detection_groups[g],
                             {requested.models_to_use[1], requested.models_to_use[2]})
                    => \E k \in 1..Len(voted) :
                          /\ voted[k] = g
                          /\ consensus_detections[k].bbox[3]
                             = IntMean(detection_groups[g], 3)

\* threshold 3 was asked for yolo and detr and clamped to 2; detr failed to
\* load at the first frame; on the second frame yolo alone reports
\* detections and no consensus is emitted
C12_Witness ==
    /\ epc = "detected"
    /\ detect_calls = 2
    /\ requested.voting_threshold = 3
    /\ requested.models_to_use = <<"yolo", "detr">>
    /\ LoadFailed("detr")
    /\ detector.voting_threshold = 2
    /\ invoked = <<"yolo">>
    /\ Len(all_detections) >= 2
    /\ consensus_detections = <<>>

\* the two configured models run under the clamped threshold and the group
\* they both back is emitted
ClampedConsensus ==
    /\ epc = "detected"
    /\ requested.voting_threshold = 3
    /\ requested.models_to_use = <<"yolo", "detr">>
    /\ invoked = <<"yolo", "detr">>
    /\ Len(consensus_detections) = 1
    /\ BackedBy(detection_groups[voted[1]], {"yolo", "detr"})

\* C13: a configured model whose loading failed is not loaded again: on every
\* later frame it is not invoked and contributes no detection, while every
\* configured model that loaded is invoked and the detections of those models
\* are voted on.
C13_LoadFailureNotFatal ==
    /\ \A m \in ModelNames : load_attempts[m] <= 1
    /\ epc = "detected" =>
          /\ \A m \in ModelNames :
                LoadFailed(m) =>
                   /\ \A k \in 1..Len(invoked) : invoked[k] # m
                   /\ \A k \in 1..Len(all_detections) :
                         all_detections[k].model_source # m
          /\ {invoked[k] : k \in 1..Len(invoked)} = Live
          /\ \A k \in 1..Len(all_detections) : all_detections[k].model_source \in Live
          /\ detection_groups = GroupDetections(detector, all_detections, 1, <<>>)
          /\ voted = PassingGroups(detector, detection_groups, 1)
          /\ Len(consensus_detections) = Len(voted)

\* detr failed to load at the first frame; on the second frame yolo and
\* fasterrcnn run and agree on a consensus detection
C13_Witness ==
    /\ epc = "detected"
    /\ detect_calls = 2
    /\ LoadFailed("detr")
    /\ load_attempts["detr"] = 1
    /\ invoked = <<"yolo", "fasterrcnn">>
    /\ detector.voting_threshold = 2
    /\ Len(consensus_detections) = 1
    /\ BackedBy(detection_groups[voted[1]], {"yolo", "fasterrcnn"})

(***************************************************************************)
(* The drivers: failures of the collaborators, cancellation, statistics.   *)
(***************************************************************************)
\* the step is one of the driver, not the user's request to stop
DriverStep == stop_requested' = stop_requested

\* the frame a handler is working on
HandledFrame == IF dpc = "frame" THEN frame[1] ELSE frame_batch[batch_i]

\* C14: when the detector or the text gate raises an exception on a sampled
\* frame, the driver takes the frame as one without text and without
\* detections (skipped_no_detection is counted, nothing is written) and goes
\* on with the loop; the video is not aborted.
C14_FailuresCaught ==
    [][ /\ (HandlesFrame /\ DriverStep /\ HandledFrame.raises) =>
              /\ dpc' \in {"loop", "batch", "finally"}
              /\ files' = files
              /\ stats'.skipped_no_detection = stats.skipped_no_detection + 1
        /\ (dpc = "mask" /\ DriverStep) => dpc' = "batch"
        /\ dpc' \notin {"raised", "aborted"}
      ]_vars

\* the sampled frames of the video that were masked as text or handed to the
\* detector
FramesHandled(stats_) == stats_.processed_frames + stats_.skipped_text

\* C15: in the batched drivers (UnifiedVideoProcessor in turbo mode,
\* OptimizedVideoProcessor / TurboVideoProcessor), when the stop callback
\* returns true while sampled frames wait in the batch, the batch is
\* processed before the driver stops: the loop is left with every sampled
\* frame handled.
C15_FlushOnCancel ==
    [][ /\ (/\ dpc = "loop" /\ DriverStep /\ Batched(processor)
            /\ Stopping /\ frame_batch # <<>>) =>
              /\ dpc' = "mask"
              /\ flushing'
              /\ frame_batch' = frame_batch
        /\ (Batched(processor) /\ dpc' = "finally") =>
              FramesHandled(stats') = frame_count' \div call.frame_interval
      ]_vars

\* C16: from the moment the stop callback returns true, and stays true, no
\* frame is read any more and process_all_videos opens no further video; the
\* driver leaves the loop by its break, no exception comes from the stop, and
\* when the call has returned the statistics hold what was accumulated: the
\* video that was stopped is recorded with its counters.
C16_CancellationStops ==
    [][ /\ stop_requested => reads' = reads
        /\ (stop_requested /\ processor.kind = "unified") => video_idx' = video_idx
        /\ (stop_requested /\ dpc = "loop") => dpc' \in {"finally", "mask"}
        /\ (stop_requested /\ dpc = "start" /\ processor.kind = "unified") =>
              dpc' = "done"
        /\ (stop_requested /\ dpc' = "raised") =>
              dpc \in {"raised", "frame", "mask", "batch"}
        /\ (stop_requested /\ DriverStep /\ dpc = "finally") =>
              /\ stats' = stats
              /\ files' = files
              /\ processor.kind = "unified" =>
                    /\ Len(overall_stats'.videos_stats) = video_idx
                    /\ overall_stats'.videos_stats[video_idx].stats = stats
                    /\ overall_stats'.total_frames_saved
                       = overall_stats.total_frames_saved + stats.saved_frames
        /\ (stop_requested /\ dpc = "done") => dpc' = "done"
      ]_vars

\* the run over two videos was stopped in the first after one crop was saved:
\* the call has returned, the second video was not opened, and the statistics
\* hold the first video's counters
C16_Witness ==
    /\ dpc = "done"
    /\ stop_requested
    /\ processor.kind = "unified"
    /\ processor.videos = 2
    /\ video_idx = 1
    /\ reads = 1
    /\ overall_stats.processed_videos = 1
    /\ overall_stats.total_frames_saved = 1
    /\ overall_stats.videos_stats[1].stats.saved_frames = 1
    /\ Cardinality(files) = 1

\* C17: on the same video, with the same frame interval, skip_text setting
\* and collaborator answers and without cancellation, the standard and the
\* turbo strategy of UnifiedVideoProcessor save the same images and end with
\* the same processed_frames, saved_frames, skipped_text,
\* skipped_no_detection and per-category counters, whatever the batch size.
C17_StrategiesEquivalent ==
    rpc = "both" =>
        /\ standard_run[2] = turbo_run[2]
        /\ \A c \in DOMAIN EmptyStats : standard_run[1][c] = turbo_run[1][c]

\* the crops written for a video, all of them or those of a category
FilesOf(video_name) == {f \in files : f.video = video_name}
FilesIn(video_name, dir) == {f \in FilesOf(video_name) : f.dir = dir}

\* the counters count the crops of this video and no others
CountsVideo(stats_, video_name) ==
    /\ stats_.saved_frames + stats_.skipped_no_detection <= stats_.processed_frames
    /\ stats_.saved_frames = Cardinality(FilesOf(video_name))
    /\ \A c \in {"person", "animal", "object"} :
          stats_[c \o "_frames"] = Cardinality(FilesIn(video_name, OutputDir(c)))

RECURSIVE SumStats(_, _, _)
SumStats(entries, counter, i) ==
    IF i > Len(entries) THEN 0
    ELSE entries[i].stats[counter] + SumStats(entries, counter, i + 1)

\* the video process_single_video is working on
InVideo == dpc \in {"loop", "frame", "mask", "batch", "finally", "raised"}

\* every entry of videos_stats, and the stats of the video in progress, count
\* the frames of their own video only
PerVideoStats ==
    processor.kind = "unified" =>
        LET entries == overall_stats.videos_stats
        IN  /\ \A c \in {"processed_frames", "skipped_text"} :
                  SumStats(entries, c, 1) + (IF InVideo THEN stats[c] ELSE 0)
                  <= reads
            /\ InVideo => CountsVideo(stats, video_idx)
            /\ \A k \in 1..Len(entries) :
                  CountsVideo(entries[k].stats, entries[k].video_name)

\* C18: process_all_videos starts every video with empty statistics: the entry
\* of videos_stats for the k-th video counts the frames of the k-th video
\* only, and no step of a later video changes an entry already recorded.
C18_PerVideoStats ==
    /\ []PerVideoStats
    /\ [][ processor.kind = "unified" =>
              /\ Len(overall_stats'.videos_stats) >= Len(overall_stats.videos_stats)
              /\ \A k \in 1..Len(overall_stats.videos_stats) :
                    overall_stats'.videos_stats[k] = overall_stats.videos_stats[k]
          ]_vars

\* both videos of a run were opened and a crop was saved from each: each
\* entry counts one saved frame
C18_Witness ==
    /\ dpc = "done"
    /\ processor.kind = "unified"
    /\ Len(overall_stats.videos_stats) = 2
    /\ overall_stats.videos_stats[1].stats.saved_frames = 1
    /\ overall_stats.videos_stats[2].stats.saved_frames = 1
    /\ overall_stats.videos_stats[2].stats.processed_frames = 1
    /\ Cardinality(FilesOf(1)) = 1
    /\ Cardinality(FilesOf(2)) = 1


\* the videos of the run that could not be opened, up to the one reached
Unopened == {k \in 1..video_idx : ~readable[k]}

\* an unopenable video leaves an entry with zeroed statistics and no crop
SkippedCleanly ==
    \A k \in Unopened :
        /\ FilesOf(k) = {}
        /\ k <= Len(overall_stats.videos_stats) =>
              /\ overall_stats.videos_stats[k].video_name = k
              /\ overall_stats.videos_stats[k].stats = EmptyStats

\* C19: in a batch run a video that cannot be opened is given up alone: it
\* gets an entry with zeroed statistics and no saved frame, the run goes on
\* with the next video in input order, a readable video reached without
\* cancellation is opened, and a run that ends without cancellation or
\* exception has recorded every video.
C19_UnreadableVideoSkipped ==
    [][ processor.kind = "unified" =>
          /\ SkippedCleanly'
          /\ (dpc = "start" /\ video_idx' = video_idx + 1) =>
                IF readable[video_idx']
                THEN cap' = "open" /\ dpc' = "loop"
                ELSE /\ dpc' = "start"
                     /\ files' = files
                     /\ Len(overall_stats'.videos_stats) = video_idx'
                     /\ overall_stats'.total_frames_saved
                        = overall_stats.total_frames_saved
          /\ (dpc' = "done" /\ ~stop_requested') =>
                /\ video_idx' = processor.videos
                /\ Len(overall_stats'.videos_stats) = processor.videos
      ]_vars

\* the first video could not be opened, the second was processed and a crop
\* of it saved
C19_Witness ==
    /\ dpc = "done"
    /\ processor.kind = "unified"
    /\ processor.videos = 2
    /\ ~readable[1] /\ readable[2]
    /\ Len(overall_stats.videos_stats) = 2
    /\ overall_stats.videos_stats[1].stats = EmptyStats
    /\ overall_stats.videos_stats[2].stats.saved_frames = 1
    /\ FilesOf(1) = {}
    /\ Cardinality(FilesOf(2)) = 1


\* C20: throughout a run of process_all_videos on a new UnifiedVideoProcessor
\* total_frames_saved is the sum of saved_frames over the entries of
\* videos_stats, processed_videos is the number of entries, the entries are
\* in input order and processed_videos does not exceed total_videos.
C20_OverallStatsConsistent ==
    processor.kind = "unified" =>
        LET entries == overall_stats.videos_stats
        IN  /\ overall_stats.total_frames_saved = SumStats(entries, "saved_frames", 1)
            /\ overall_stats.processed_videos = Len(entries)
            /\ \A k \in 1..Len(entries) : entries[k].video_name = k
            /\ overall_stats.processed_videos <= overall_stats.total_videos
            /\ overall_stats.total_videos = processor.videos

\* two videos recorded with a crop each while the run is still at the head
\* of its loop
C20_Witness ==
    /\ processor.kind = "unified"
    /\ dpc = "start"
    /\ overall_stats.processed_videos = 2
    /\ overall_stats.total_frames_saved = 2
    /\ Len(overall_stats.videos_stats) = 2


\* the call of the worked example: a 1920 x 1080 frame, the subject
\* [800, 400, 1000, 700], an object, format 9:16, min_padding 500
ExampleCall ==
    /\ cpc \in {"cropped", "scored"}
    /\ frame_shape = <<1920, 1080>>
    /\ subject_bbox = <<800, 400, 1000, 700>>
    /\ category = "object"
    /\ cropper.target_format = "9:16"
    /\ cropper.min_padding = 500

InsideFrame(box, shape) ==
    /\ box[1] >= 0 /\ box[2] >= 0
    /\ box[1] + box[3] <= shape[2] /\ box[2] + box[4] <= shape[1]

\* C21 as stated: on the worked example calculate_crop_box takes the
\* height-constrained branch and returns a crop box of height 1300 and width
\* about 731, inside the frame and centred near (900, 550).
C21_ExampleHeightConstrained ==
    ExampleCall =>
        /\ crop_dims[2] = 1300
        /\ crop_box[4] = 1300
        /\ Abs(crop_box[3] - 731) <= 10
        /\ InsideFrame(crop_box, frame_shape)
        /\ Abs(2 * crop_box[1] + crop_box[3] - 2 * 900) <= 2 * 200
        /\ Abs(2 * crop_box[2] + crop_box[4] - 2 * 550) <= 2 * 200

\* C21 amended: on the worked example calculate_crop_box takes the
\* width-constrained branch (1200 / 1300 > 9 / 16), the crop of 1200 x 2133
\* is scaled down to the frame by 0.9 and the box returned has width 1080 (to
\* within the rounding of int(1200 * 0.9)) and height 1919, inside the frame,
\* in its top left corner.
C21_ExampleWidthConstrained ==
    ExampleCall =>
        /\ crop_dims = <<1200, 2133>>
        /\ crop_box[4] = 1919
        /\ crop_box[3] \in {1079, 1080}
        /\ crop_box[1] = 1080 - crop_box[3]
        /\ crop_box[2] = 0
        /\ InsideFrame(crop_box, frame_shape)

C21_Witness ==
    /\ ExampleCall
    /\ cpc = "cropped"
    /\ crop_box = <<0, 0, 1080, 1919>>


\* the sampled frames among the first n of a video
SampledUpTo(n) == n \div call.frame_interval

\* whatever is being handled, was counted or was saved is a sampled frame
OnlySampledHandled ==
    /\ dpc = "frame" => frame_count % call.frame_interval = 0
    /\ \A i \in 1..Len(frame_numbers) :
          /\ frame_numbers[i] % call.frame_interval = 0
          /\ frame_numbers[i] <= frame_count
    /\ \A f \in files : f.frame_number % call.frame_interval = 0
    /\ InVideo =>
          \A c \in {"processed_frames", "skipped_text", "skipped_no_detection",
                     "saved_frames"} : stats[c] <= SampledUpTo(frame_count)

\* C22: in every driver only the frames whose 1-based number in the video is
\* a multiple of frame_interval are handled: reading any other frame hands
\* no frame to the text check or the detector and changes no counter and no
\* file, and every frame handled, counted or saved is a sampled one.
C22_SamplingOnly ==
    /\ []OnlySampledHandled
    /\ [][ (dpc = "loop" /\ reads' = reads + 1
             /\ frame_count' % call.frame_interval # 0) =>
              /\ dpc' = "loop"
              /\ frame' = <<>>
              /\ frame_batch' = frame_batch
              /\ frame_numbers' = frame_numbers
              /\ stats' = stats
              /\ overall_stats' = overall_stats
              /\ files' = files
              /\ processed_count' = processed_count
          ]_vars

\* with frame_interval 2 both frames of a video were read, the first was
\* passed over and the second one saved
C22_Witness ==
    /\ call.frame_interval = 2
    /\ frame_count = 2
    /\ stats.processed_frames = 1
    /\ stats.saved_frames = 1
    /\ \E f \in files : f.frame_number = 2


\* the sampled frames of the video that came before those in frame_batch
BeforeBatch == SampledUpTo(frame_count) - Len(frame_batch)

\* the frames of the batch _process_batch is done with: those it masked as
\* text and the unmasked ones its second loop has passed
DoneInBatch ==
    Cardinality({i \in 1..Len(text_mask) : text_mask[i] \/ i < batch_i})

\* the batch holds the latest sampled frames, in frame order and without a
\* gap, and every sampled frame before them was handled exactly once
BatchesInOrder ==
    /\ Len(frame_numbers) = Len(frame_batch)
    /\ dpc \in {"loop", "mask", "batch"} =>
          \A i \in 1..Len(frame_numbers) :
              frame_numbers[i] = (BeforeBatch + i) * call.frame_interval
    /\ dpc = "loop" =>
          /\ Len(frame_batch) < processor.batch_size
          /\ FramesHandled(stats) = BeforeBatch
    /\ dpc = "mask" =>
          /\ FramesHandled(stats) = BeforeBatch
          /\ IF flushing
             THEN Len(frame_batch) \in 1..(processor.batch_size - 1)
             ELSE Len(frame_batch) = processor.batch_size
    /\ dpc = "batch" => FramesHandled(stats) = BeforeBatch + DoneInBatch
    /\ dpc = "finally" =>
          /\ frame_batch = <<>>
          /\ FramesHandled(stats) = SampledUpTo(frame_count)

\* C23: in the batched drivers, without cancellation, every sampled frame of
\* a video is passed to _process_batch exactly once and in frame order: a
\* batch is passed on when it holds batch_size frames, the frames left at
\* the end of the stream are passed on as a last, smaller batch, and the
\* loop is left with every sampled frame handled.
C23_BatchesComplete ==
    /\ [](Batched(processor) /\ ~stop_requested => BatchesInOrder)
    /\ [][ (/\ Batched(processor) /\ ~stop_requested' /\ dpc = "loop"
             /\ reads' = reads /\ dpc' # "loop" /\ frame_batch # <<>>) =>
               /\ dpc' = "mask"
               /\ flushing'
               /\ frame_batch' = frame_batch
               /\ frame_numbers' = frame_numbers
          ]_vars

\* with batch_size 2 a video of three sampled frames ended: a full batch was
\* processed and then the last frame alone, which was saved
C23_Witness ==
    /\ Batched(processor)
    /\ processor.batch_size = 2
    /\ ~stop_requested
    /\ dpc = "finally"
    /\ flushing
    /\ frame_count = 3
    /\ call.frame_interval = 1
    /\ FramesHandled(stats) = 3
    /\ \E f \in files : f.frame_number = 3


\* the boxes calculate_crop_box can return for the call when it is given no
\* head space (head_space_ratio 0.0)
WithoutHeadSpace ==
    {calculate_crop_box(cropper, frame_shape, subject_bbox, category,
                        <<0, 1>>, ulp) : ulp \in Ulps}

\* the row of the crop box whose centre was moved by `shift` rows from the
\* centre of the subject, kept inside the frame
RowMovedBy(shift) ==
    LET center_y == (subject_bbox[2] + subject_bbox[4]) \div 2 + shift
        height   == crop_box[4]
    IN  Max(0, Min(center_y - height \div 2, frame_shape[1] - height))

\* the call is one for a person with a head space ratio given
PersonWithHeadSpace == category = "person" /\ head_space_ratio[1] > 0

\* C24: calculate_crop_box moves the vertical centre of the crop only for a
\* person with head_space_ratio > 0: up by int(0.1 * crop_height) when the
\* ratio is below 0.05, down by as much when it is above 0.25, not at all
\* from 0.05 to 0.25; for an animal, an object or a ratio of 0 the box is
\* the one computed without head space.
C24_HeadRoomBands ==
    Cropped =>
        IF PersonWithHeadSpace
        THEN /\ \E box \in WithoutHeadSpace :
                    box[1] = crop_box[1] /\ box[3] = crop_box[3] /\ box[4] = crop_box[4]
             /\ crop_box[2] =
                   IF RatLt(head_space_ratio, <<5, 100>>)
                   THEN RowMovedBy(0 - crop_box[4] \div 10)
                   ELSE IF RatLt(<<25, 100>>, head_space_ratio)
                   THEN RowMovedBy(crop_box[4] \div 10)
                   ELSE RowMovedBy(0)
        ELSE crop_box \in WithoutHeadSpace

\* a person with too much room above the head: the crop lies lower than it
\* would without the adjustment
C24_Witness ==
    /\ cpc = "cropped"
    /\ PersonWithHeadSpace
    /\ RatLt(<<25, 100>>, head_space_ratio)
    /\ crop_box[4] \div 10 >= 1
    /\ crop_box[2] > RowMovedBy(0)


\* two detections a model-independent observer would put together: the same
\* class and boxes that overlap by the IoU threshold or more
SameObject(d, e) ==
    /\ d.class_id = e.class_id
    /\ RatLe(detector.iou_threshold, calculate_iou(d.bbox, e.bbox))

\* the input detections that `assigned` puts into group g, in input order
RECURSIVE MembersOf(_, _, _)
MembersOf(assigned, g, i) ==
    IF i > Len(all_detections) THEN <<>>
    ELSE (IF assigned[i] = g THEN <<all_detections[i]>> ELSE <<>>)
         \o MembersOf(assigned, g, i + 1)

\* `assigned` gives every input detection its group by first match: the
\* earliest-created group that holds an earlier detection it matches, or, if
\* there is none, the next new group
FirstMatchAssignment(assigned) ==
    \A i \in 1..Len(all_detections) :
        LET matching == {assigned[j] : j \in {j \in 1..(i - 1) :
                            SameObject(all_detections[i], all_detections[j])}}
            created  == {assigned[j] : j \in 1..(i - 1)}
        IN  IF matching = {}
            THEN assigned[i] = Cardinality(created) + 1
            ELSE assigned[i] \in matching /\ \A h \in matching : assigned[i] <= h

\* C25: ensemble_voting clusters by first match: each detection, in input
\* order, joins the earliest-created group with a member of its class that it
\* overlaps by iou_threshold or more, and no other group; without such a group
\* it opens a new one; groups are never merged; and the consensus detections
\* come in the order in which their groups were created.
C25_FirstMatchClustering ==
    epc = "detected" =>
        /\ \E assigned \in [1..Len(all_detections) -> 1..Len(all_detections)] :
              /\ FirstMatchAssignment(assigned)
              /\ Len(detection_groups) = Cardinality({assigned[i] : i \in DOMAIN assigned})
              /\ \A g \in 1..Len(detection_groups) :
                    detection_groups[g] = MembersOf(assigned, g, 1)
        /\ Len(consensus_detections) = Len(voted)
        /\ \A k \in 1..Len(voted) :
              /\ k > 1 => voted[k - 1] < voted[k]
              /\ LET group == detection_groups[voted[k]]
                 IN  /\ consensus_detections[k].class_id = group[1].class_id
                     /\ consensus_detections[k].class_name = group[1].class_name
                     /\ \A c \in 1..4 :
                           consensus_detections[k].bbox[c] = IntMean(group, c)

\* the third detection overlaps the first and the second, which do not
\* overlap each other enough: it joined the first one's group, and the two
\* groups stayed apart
C25_Witness ==
    /\ epc = "detected"
    /\ Len(all_detections) = 3
    /\ SameObject(all_detections[3], all_detections[1])
    /\ SameObject(all_detections[3], all_detections[2])
    /\ ~SameObject(all_detections[1], all_detections[2])
    /\ all_detections[1].class_id = all_detections[2].class_id
    /\ Len(detection_groups) = 2
    /\ detection_groups[1] = <<all_detections[1], all_detections[3]>>
    /\ detection_groups[2] = <<all_detections[2]>>


\* the three counters that close the handling of a frame
Outcomes == {"skipped_text", "skipped_no_detection", "saved_frames"}
OutcomesCounted(stats_) ==
    stats_.skipped_text + stats_.skipped_no_detection + stats_.saved_frames

\* the sampled frames of the video whose handling has begun: all that were
\* read but those that wait in the batch
SampledHandled ==
    BeforeBatch
    + Cardinality({i \in 1..Len(text_mask) : text_mask[i] \/ i <= batch_i})

\* C26: the handling of a sampled frame ends in one of four ways, skipped for
\* text, skipped for no detection, saved, or dropped without a trace, and
\* adds one to at most one of skipped_text, skipped_no_detection and
\* saved_frames; while a video is processed the three counters together
\* never exceed the number of sampled frames handled so far.
C26_OneOutcomePerFrame ==
    /\ [](InVideo => OutcomesCounted(stats) <= SampledHandled)
    /\ [][  /\ (dpc \in {"frame", "batch"} /\ DriverStep) =>
                /\ \A c \in Outcomes : stats'[c] - stats[c] \in {0, 1}
                /\ OutcomesCounted(stats') - OutcomesCounted(stats) \in {0, 1}
                /\ files \subseteq files'
                /\ Cardinality(files') - Cardinality(files)
                   = stats'.saved_frames - stats.saved_frames
            /\ (dpc = "mask" /\ DriverStep) =>
                /\ stats'.skipped_text - stats.skipped_text \in 0..Len(frame_batch)
                /\ stats'.skipped_no_detection = stats.skipped_no_detection
                /\ stats'.saved_frames = stats.saved_frames
                /\ files' = files
            /\ dpc \in {"loop", "finally", "raised"} =>
                /\ \A c \in Outcomes : stats'[c] = stats[c]
                /\ files' = files
          ]_vars

\* the three sampled frames of a video took three ways out: one was skipped
\* for its text, one was saved and one dropped without a trace
C26_Witness ==
    /\ dpc = "finally"
    /\ stats.skipped_text = 1
    /\ stats.skipped_no_detection = 0
    /\ stats.saved_frames = 1
    /\ SampledUpTo(frame_count) = 3
    /\ frame_batch = <<>>


CategoryDirs == [person |-> "persons", animal |-> "animals", object |-> "objects"]

\* the saved crops of the counters are those of the three categories
SavedByCategory(stats_) ==
    stats_.saved_frames
    = stats_.person_frames + stats_.animal_frames + stats_.object_frames

\* C28: in every state of every driver saved_frames is the sum of
\* person_frames, animal_frames and object_frames, and a crop is written
\* only while a frame is handled, into the directory (persons, animals or
\* objects) of the category of that frame's primary subject.
C28_SavedFramesByCategory ==
    /\ [](SavedByCategory(stats)
          /\ \A i \in 1..Len(overall_stats.videos_stats) :
                SavedByCategory(overall_stats.videos_stats[i].stats))
    /\ [][ \A f \in files' \ files :
              /\ HandlesFrame
              /\ get_primary_subject(HandledFrame.detections)[1] \in DOMAIN CategoryDirs
              /\ f.dir = CategoryDirs[get_primary_subject(HandledFrame.detections)[1]]
          ]_vars

\* a person, a dog and a cup of one video were saved, each into its directory
C28_Witness ==
    /\ stats.saved_frames = 3
    /\ stats.person_frames = 1
    /\ stats.animal_frames = 1
    /\ stats.object_frames = 1
    /\ \A c \in DOMAIN CategoryDirs : \E f \in files : f.dir = CategoryDirs[c]


\* how often a detection occurs in a list, and in the groups together
Occurrences(dets, d) == Cardinality({i \in 1..Len(dets) : dets[i] = d})

RECURSIVE OccurrencesInGroups(_, _, _)
OccurrencesInGroups(groups, d, g) ==
    IF g > Len(groups) THEN 0
    ELSE Occurrences(groups[g], d) + OccurrencesInGroups(groups, d, g + 1)

\* every detection any group holds
GroupMembers(groups) ==
    UNION {{groups[g][k] : k \in 1..Len(groups[g])} : g \in 1..Len(groups)}

\* C29: the groups ensemble_voting builds partition its input: no group is
\* empty, every input detection is in the groups as often as it is in the
\* input and nothing else is, so there are at most as many groups as inputs
\* and at most as many consensus detections as groups; an empty input gives
\* no group and an empty output.
C29_GroupsPartitionInput ==
    epc = "detected" =>
        /\ \A g \in 1..Len(detection_groups) : Len(detection_groups[g]) >= 1
        /\ \A d \in GroupMembers(detection_groups) \cup GroupMembers(<<all_detections>>) :
              OccurrencesInGroups(detection_groups, d, 1) = Occurrences(all_detections, d)
        /\ Len(consensus_detections) <= Len(detection_groups)
        /\ Len(detection_groups) <= Len(all_detections)
        /\ all_detections = <<>> =>
              detection_groups = <<>> /\ consensus_detections = <<>>

\* three detections, two of them the same report twice, went into two groups,
\* one of two members and one of one, and fewer consensus detections
\* than groups came out
C29_Witness ==
    /\ epc = "detected"
    /\ Len(all_detections) = 3
    /\ all_detections[1] = all_detections[2]
    /\ Len(detection_groups) = 2
    /\ detection_groups[1] = <<all_detections[1], all_detections[1]>>
    /\ Len(detection_groups[2]) = 1
    /\ Len(consensus_detections) < Len(detection_groups)


\* control is outside of the processing of any video
Returned == dpc \in {"start", "done", "aborted"}

\* C30: a video that was opened is processed with its capture open, and
\* every way its processing ends, the end of the stream, a stop asked for by
\* the callback or an exception of a collaborator inside the loop, releases
\* the capture before control returns: no driver is outside the processing
\* of a video with a capture that is still open.
C30_CaptureReleased ==
    /\ [](/\ InVideo => cap = "open"
          /\ Returned => cap # "open")
    /\ [][ (InVideo /\ Returned') =>
              /\ dpc \in {"finally", "raised"}
              /\ cap = "open" /\ cap' = "released"
          ]_vars

\* the detector raised on a frame of the second video of a run, after the
\* first had ended with the stream: the capture was released both times
C30_Witness ==
    /\ dpc = "aborted"
    /\ video_idx = 2
    /\ Len(overall_stats.videos_stats) = 1
    /\ cap = "released"

=============================================================================
